---- MODULE Spec2Model ----
(***************************************************************************)
(* Lawyer crawling system: two-stage crawl pipeline (apps/crawler),        *)
(* entity model (apps/lawyers/models.py) and the RocketReach lookup        *)
(* enrichment service (apps/lawyers/rocketreach_service.py).               *)
(*                                                                         *)
(* The persistent store (DiscoveryURL, SourceConfiguration, Lawyer and     *)
(* RocketReachLookup tables) is the shared state; Celery tasks are the     *)
(* processes.  Strings of the program are kept as strings; free text is    *)
(* abstracted to a few representative values.                              *)
(***************************************************************************)
EXTENDS Integers, Sequences, FiniteSets, TLC

(***************************************************************************)
(* Bounds of the model                                                     *)
(***************************************************************************)
NumUnits == 2          \* Discovery Units (DiscoveryURL rows) of the Job
Stage1Tasks == 1       \* units with a queued Stage-1 task in SpecStage1
RetryTasks == 1        \* units with a queued Stage-1 task in SpecRetry
MaxShort == 2          \* containers of a listing page besides the padding
MaxSessions == 2       \* crawl_session_task messages sent for the Job
NumEntities == 2       \* rows of the Lawyer table in SpecDetail
NumWorkers == 2        \* workers that run detail tasks
MaxDetailSends == 3    \* sends of detail tasks (admin action or delivery)
MaxLookupSends == 2    \* sends of lookup tasks by callers
MaxHead == 1           \* provider responses that differ from the rest
MaxContacts == 2       \* contacts in one lookup result in SpecSync
MaxEmails == 2         \* company_emails entries of a stored row in SpecEntity
MaxDeliveries == 2     \* deliveries of one Stage-1 task message

(***************************************************************************)
(* Program constants                                                       *)
(***************************************************************************)
MaxRetries == 3        \* @shared_task(max_retries=3)
RetryDelayUnit == 60   \* countdown=60 * (self.request.retries + 1)
MaxPerPage == 20       \* containers[:20]
MinSample == 1         \* random.randint(1, 3)
MaxSample == 3
DefaultRetryAfter == 5 \* response.headers.get("Retry-After", 5)
LookupMaxRetries == 3  \* @shared_task(bind=True, max_retries=3)
LookupBackoffUnit == 60 \* countdown=60 * (2 ** self.request.retries)
MinuteWindow == 60     \* if current_time - self.minute_start_time >= 60
HourWindow == 3600     \* if current_time - self.hour_start_time >= 3600
MaxClock == 70         \* no request starts at or after this time
TickSeconds == 20      \* the time that passes between two requests

Units == 1..NumUnits

Workers == 1..NumWorkers

Min(a, b) == IF a <= b THEN a ELSE b

VARIABLES
    unitStatus,    \* DiscoveryURL.status
    unitError,     \* DiscoveryURL.error_message
    unitFound,     \* DiscoveryURL.lawyers_found
    queue,         \* Stage-1 task messages held by the broker
    pc,            \* position of the Stage-1 task running for a unit
    taskRetries,   \* self.request.retries of the running task
    localFound,    \* local variable lawyers_found of the running task
    lawyers,       \* the Lawyer table, in insertion order (id = index)
    fetchPool,     \* what fetching a listing URL can give in this environment
    attempts,      \* history: executions of the task per unit
    exhausted,     \* history: self.retry gave up for the unit
    runSrc         \* history: what the fetch of the unit's latest run gave

VARIABLES
    job,           \* the SourceConfiguration row of the Job
    sess,          \* the running crawl_session_task: position and locals
    sessQueue,     \* crawl_session_task messages held by the broker
    sessStarted,   \* history: crawl_session_task messages sent so far
    aggregated     \* history: an aggregation step ran after the last unit write

VARIABLES
    dqueue,        \* crawl_lawyer_detail_task messages per Lawyer id
    dpc,           \* position of the detail task on each worker
    dLawyer,       \* the Lawyer a worker's detail task loaded: id and row
    dReturned,     \* history: the messages detail tasks have returned with
    detailSent,    \* history: sends of detail tasks so far
    detailFetched, \* history: ids of the Lawyers a detail fetch was made for
    dInfo,         \* history: what crawl_lawyer_detail gave the latest run
    selected,      \* history: the rows step2_crawl_detail selected
    lawyers0       \* history: the Lawyer table at the start

VARIABLES
    lookups,       \* the RocketReachLookup table, in insertion order (id = index)
    lqueue,        \* lookup_lawyer_email_task messages held by the broker
    provider,      \* how the provider answers the requests of one attempt
    apiKey,        \* settings.ROCKETREACH_API_KEY
    lookupSent,    \* history: lookup tasks sent by callers so far
    calls          \* history: one entry per run of the lookup task

VARIABLES
    syncResult,    \* the lookup result handed to _sync_emails_to_lawyer
    syncBefore     \* history: the Lawyer rows before the latest sync

VARIABLES
    obj,           \* the Lawyer object of the latest operation, in memory
    lastOp         \* history: the latest operation on the Lawyer and its result

VARIABLES
    limiter,       \* the RateLimiter of the RocketReachAPI client
    clock,         \* time.time(), in seconds since the client was built
    sentThisMinute \* history: requests sent per endpoint type in the minute
                   \* that began at limiter.minute_start_time

unitVars == <<unitStatus, unitError, unitFound>>

taskVars == <<queue, pc, taskRetries, localFound, fetchPool, attempts,
              exhausted, runSrc>>

jobVars == <<job, sess, sessQueue, sessStarted, aggregated>>

detailVars == <<dqueue, dpc, dLawyer, dReturned, detailSent, detailFetched, dInfo,
                selected, lawyers0>>

lookupVars == <<lookups, lqueue, provider, apiKey, lookupSent, calls>>

syncVars == <<syncResult, syncBefore>>

entityVars == <<obj, lastOp>>

limiterVars == <<limiter, clock, sentThisMinute>>

exceptStage1 == <<limiterVars, jobVars, detailVars, lookupVars, syncVars, entityVars>>

exceptJob == <<limiterVars, taskVars, detailVars, lookupVars, syncVars, entityVars>>

exceptDetail == <<limiterVars, unitVars, taskVars, jobVars, lookupVars, syncVars,
                  entityVars>>

exceptLookup == <<limiterVars, unitVars, taskVars, jobVars, detailVars, syncVars,
                  entityVars>>

exceptSync == <<limiterVars, unitVars, taskVars, jobVars, detailVars, lookupVars,
                entityVars>>

exceptEntity == <<limiterVars, unitVars, taskVars, jobVars, detailVars, syncVars>>

vars == <<unitVars, taskVars, lawyers, jobVars, detailVars, lookupVars,
          syncVars, entityVars, limiterVars>>

(***************************************************************************)
(* Stage 1: listing pages, containers and extraction                       *)
(* (apps/crawler/tasks.py, apps/crawler/detail_tasks.py)                   *)
(***************************************************************************)

\* container.select_one(selector) returned no element
NoMatch == "<no element>"

\* Site of a Discovery Unit (DiscoveryURL.domain); the URL of a lawinfo unit
\* contains 'lawinfo.com'.
UnitDomain(u) == IF u % 2 = 1 THEN "lawinfo" ELSE "superlawyers"

\* A listing container as the extractor sees it: the outcome of each
\* company_name selector in list order (NoMatch or the element's text), the
\* href of its first '/lawfirm/' profile link on lawinfo.com ("" if none),
\* whether every extracted value fits the width of its Lawyer column
\* (website: URLField max_length 200, phone: 50, company_name: 300), and the
\* address that extract_address_from_lawinfo or, after it, the regex over the
\* container's text gives ("" if neither finds one).
CNamed == [name |-> <<"Acme Law", NoMatch>>,
           link |-> "https://www.lawinfo.com/lawfirm/acme", fits |-> TRUE,
           address |-> "Chandler, Arizona"]
CBlank == [name |-> <<NoMatch, NoMatch>>, link |-> "", fits |-> TRUE,
           address |-> ""]
CEmptyText == [name |-> <<"", "Cole LLP">>, link |-> "", fits |-> TRUE,
               address |-> ""]
CSecond == [name |-> <<NoMatch, "Jane Roe">>, link |-> "", fits |-> TRUE,
            address |-> ""]
CTooLong == [name |-> <<"Dow Legal", NoMatch>>, link |-> "", fits |-> FALSE,
             address |-> ""]

ContainerKinds == {CNamed, CBlank, CEmptyText, CTooLong}

ShortSeqs == UNION {[1..n -> ContainerKinds] : n \in 0..MaxShort}

Pad(k) == [i \in 1..k |-> CNamed]

\* A fetched page: the nodes matched by the domain's container selector and
\* the nodes matched by the first generic pattern that matches anything.
\* Short pages, pages that reach past the 20th container, and pages on which
\* only a generic pattern matches.
CapSuffixes == [1..2 -> ContainerKinds]

Pages ==
    {[containers |-> s, generic |-> <<>>] : s \in ShortSeqs}
    \cup {[containers |-> Pad(MaxPerPage - 1) \o s, generic |-> <<>>] :
            s \in CapSuffixes}
    \cup {[containers |-> <<>>, generic |-> g] :
            g \in {<<CSecond>>, <<CBlank, CNamed>>, <<CTooLong>>,
                   <<CNamed, CSecond>>}}

\* Exceptions of anti_detection.make_request / response.raise_for_status /
\* open(html_file_path)
FetchErrors == {"ConnectionError", "ReadTimeout", "HTTPError 503"}

\* Exception text of a failed DiscoveryURL.save()
StoreError == "OperationalError"

RECURSIVE FirstMatch(_, _)
FirstMatch(outcomes, i) ==
    IF i > Len(outcomes) THEN ""
    ELSE IF outcomes[i] # NoMatch THEN outcomes[i]
    ELSE FirstMatch(outcomes, i + 1)

\* extract_text_by_selectors: the text of the first selector that matches an
\* element, "" when none matches
extract_text_by_selectors(outcomes) == FirstMatch(outcomes, 1)

\* Variant of find_lawyer_containers without the [:20] slice
FindAllContainers(page) ==
    IF page.containers # <<>> THEN page.containers ELSE page.generic

\* find_lawyer_containers: domain selector, else generic patterns; first 20
find_lawyer_containers(page) ==
    LET containers == IF page.containers # <<>> THEN page.containers
                      ELSE page.generic
    IN SubSeq(containers, 1, Min(Len(containers), MaxPerPage))

\* extract_detail_url_from_container
extract_detail_url_from_container(container, domain) ==
    IF domain = "lawinfo" THEN container.link ELSE ""

\* Substrings of company_name.lower() that detect_entity_type looks for
FirmIndicatorsIn(name) ==
    CASE name = "Acme Law" -> {"law"}
      [] name = "Cole LLP" -> {"llp"}
      [] name = "Dow Legal" -> {"legal"}
      [] name \in {"Sample Law Firm 1", "Sample Law Firm 2",
                   "Sample Law Firm 3"} -> {"law", "firm"}
      [] OTHER -> {}

IndividualIndicatorsIn(name) ==
    CASE name = "Ann Lee Esq" -> {"esq"}
      [] OTHER -> {}

WordCount(name) ==
    CASE name = "Jo" -> 1
      [] name \in {"Jane Roe", "Acme Law", "Cole LLP", "Dow Legal"} -> 2
      [] name = "Ann Lee Esq" -> 3
      [] name = "" -> 0
      [] OTHER -> 4

\* A classification that looks at attorney_name
DetectByAttorneyName(self) ==
    IF self.attorney_name # "" THEN "individual_attorney" ELSE "law_firm"

\* Lawyer.detect_entity_type
detect_entity_type(self) ==
    IF self.domain = "lawinfo.com" THEN "law_firm"
    ELSE IF self.domain = "superlawyers.com" THEN "individual_attorney"
    ELSE IF self.company_name = "" THEN "unknown"
    ELSE IF FirmIndicatorsIn(self.company_name) # {} THEN "law_firm"
    ELSE IF IndividualIndicatorsIn(self.company_name) # {}
         THEN "individual_attorney"
    ELSE IF WordCount(self.company_name) <= 3 THEN "individual_attorney"
    ELSE "unknown"

\* len(text) for the texts that company_name and address hold
TextLen(text) ==
    CASE text = "" -> 0
      [] text = "Jo" -> 2
      [] text \in {"Acme Law", "Cole LLP", "Jane Roe", "PO Box 1"} -> 8
      [] text = "Dow Legal" -> 9
      [] text = "Ann Lee Esq" -> 11
      [] text = "Rex Tom Sid Jo" -> 14
      [] text \in {"Sample Law Firm 1", "Sample Law Firm 2",
                   "Sample Law Firm 3"} -> 17
      [] text = "Chandler, Arizona" -> 17
      [] text = "\n\nOffice Locations: Tempe" -> 25
      [] text = "1 Main St, Chandler, Arizona" -> 28

\* re.match of the US phone pattern
PhoneMatches(phone) == phone = "(555) 555-0100"

\* re.match of the email pattern
EmailMatches(email) ==
    email \in {"info@samplelaw.com", "info@acme.com", "jane@acme.com",
               "jroe@mail.com", "jane@old.com"}

\* sum(1 for field in fields if field)
Filled(fields) == Cardinality({i \in 1..Len(fields) : fields[i] # ""})

\* Lawyer.calculate_completeness_score without the division by the number of
\* fields and without the cap
CompletenessUnscaled(self) ==
    <<Filled(<<self.company_name, self.attorney_name, self.phone,
               self.address, self.website, self.email>>) * 70
      + Filled(<<self.practice_areas, self.attorney_details,
                 self.law_school, self.bar_admissions, self.licensed_since,
                 self.education>>) * 30, 1>>

\* Lawyer.calculate_completeness_score, as the fraction <<numerator, 6>>:
\* (core_filled / 6) * 70 + (additional_filled / 6) * 30, capped at 100
calculate_completeness_score(self) ==
    LET core_filled == Filled(<<self.company_name, self.attorney_name,
                                self.phone, self.address, self.website,
                                self.email>>)
        additional_filled == Filled(<<self.practice_areas,
                                      self.attorney_details, self.law_school,
                                      self.bar_admissions,
                                      self.licensed_since, self.education>>)
    IN <<Min(core_filled * 70 + additional_filled * 30, 100 * 6), 6>>

\* Lawyer.calculate_quality_score
calculate_quality_score(self) ==
    (IF self.phone # "" /\ PhoneMatches(self.phone) THEN 25 ELSE 0)
    + (IF self.email # "" /\ EmailMatches(self.email) THEN 25 ELSE 0)
    + (IF self.address # "" /\ TextLen(self.address) > 10 THEN 25 ELSE 0)
    + (IF self.company_name # "" /\ TextLen(self.company_name) > 3
       THEN 25 ELSE 0)

\* Lawyer.save: the values written to the row
LawyerSave(self) ==
    LET typed == IF self.entity_type = "unknown"
                 THEN [self EXCEPT !.entity_type = detect_entity_type(self)]
                 ELSE self
        named == IF typed.entity_type = "individual_attorney"
                    /\ typed.attorney_name = "" /\ typed.company_name # ""
                 THEN [typed EXCEPT !.attorney_name = typed.company_name]
                 ELSE typed
    IN [named EXCEPT
           !.completeness_score = calculate_completeness_score(named),
           !.quality_score = calculate_quality_score(named)]

\* Field defaults of the Lawyer model
LawyerDefaults ==
    [source_url |-> 0, domain |-> "", company_name |-> "",
     attorney_name |-> "", phone |-> "", address |-> "", website |-> "",
     email |-> "", attorney_details |-> "", detail_url |-> "",
     is_detail_crawled |-> FALSE, entity_type |-> "unknown",
     company_emails |-> <<>>, employee_contacts |-> <<>>,
     practice_areas |-> "", law_school |-> "", bar_admissions |-> "",
     licensed_since |-> "", education |-> "",
     completeness_score |-> <<0, 1>>, quality_score |-> 0]

\* extract_single_lawyer_basic: lawyer_data, or None for a container whose
\* company name is empty
None == [none |-> TRUE]

extract_single_lawyer_basic(container, u) ==
    LET company_name == extract_text_by_selectors(container.name)
    IN IF company_name = "" THEN None
       ELSE [LawyerDefaults EXCEPT
                !.source_url = u,
                !.domain = UnitDomain(u),
                !.company_name = company_name,
                !.address = container.address,
                !.attorney_details = "Attorney specializing in Personal Injury",
                !.detail_url = extract_detail_url_from_container(
                                   container, UnitDomain(u)),
                !.is_detail_crawled = FALSE]

\* extract_basic_lawyers_from_soup: the rows created, in order.  A container
\* whose Lawyer.objects.create raises (a value too long for its column) is
\* skipped by the except/continue of the loop.
RECURSIVE ExtractFrom(_, _, _)
ExtractFrom(containers, i, u) ==
    IF i > Len(containers) THEN <<>>
    ELSE LET lawyer_data == extract_single_lawyer_basic(containers[i], u)
             created == IF lawyer_data = None \/ ~containers[i].fits
                        THEN <<>>
                        ELSE <<LawyerSave(lawyer_data)>>
         IN created \o ExtractFrom(containers, i + 1, u)

extract_basic_lawyers_from_soup(page, u) ==
    ExtractFrom(find_lawyer_containers(page), 1, u)

SampleName(i) ==
    CASE i = 1 -> "Sample Law Firm 1"
      [] i = 2 -> "Sample Law Firm 2"
      [] OTHER -> "Sample Law Firm 3"

\* create_sample_lawyers_for_url with num_lawyers = random.randint(1, 3)
create_sample_lawyers_for_url(u, num_lawyers) ==
    [found |-> num_lawyers,
     rows |-> [i \in 1..num_lawyers |->
                 LawyerSave([LawyerDefaults EXCEPT
                    !.source_url = u,
                    !.domain = UnitDomain(u),
                    !.company_name = SampleName(i),
                    !.phone = "(555) 555-0100",
                    !.address = "1 Main St, Chandler, Arizona",
                    !.attorney_details = "Experienced attorney",
                    !.website = "https://samplelaw.com",
                    !.email = "info@samplelaw.com"])],
     raised |-> ""]

\* What the fetch of a listing URL (for a lawinfo URL: the read of the stored
\* HTML file) gives: an exception (err # "") or a page.
NoPage == [containers |-> <<>>, generic |-> <<>>]

FetchOutcomes ==
    {[err |-> e, page |-> NoPage] : e \in FetchErrors}
    \cup {[err |-> "", page |-> p] : p \in Pages}

\* Variant of crawl_single_url_basic that lets the exception of the fetch out
CrawlWithoutFallback(u, src, num_lawyers) ==
    IF src.err # ""
    THEN [found |-> 0, rows |-> <<>>, raised |-> src.err]
    ELSE LET rows == extract_basic_lawyers_from_soup(src.page, u)
         IN [found |-> Len(rows), rows |-> rows, raised |-> ""]

\* crawl_single_url_basic / crawl_lawinfo_basic_with_real_html: every
\* exception of the fetch is caught and answered with sample rows.
crawl_single_url_basic(u, src, num_lawyers) ==
    IF src.err # ""
    THEN create_sample_lawyers_for_url(u, num_lawyers)
    ELSE LET rows == extract_basic_lawyers_from_soup(src.page, u)
         IN [found |-> Len(rows), rows |-> rows, raised |-> ""]

(***************************************************************************)
(* Stage-1 task crawl_basic_lawyer_info_task (tasks.py:634-677), the same  *)
(* body as crawl_lawyer_info_task (tasks.py:89-130)                        *)
(***************************************************************************)

\* A task message: the unit, self.request.retries and the countdown it was
\* sent with.
TaskMsg(u, retries, countdown) ==
    [unit |-> u, retries |-> retries, countdown |-> countdown]

\* countdown=60 * (self.request.retries + 1)
RetryCountdown(retries) == RetryDelayUnit * (retries + 1)

\* Variant of self.retry that allows one retry more
CanRetryOnceMore(retries) == retries <= MaxRetries

\* self.retry(exc=exc, ...): sends the task again unless request.retries has
\* reached max_retries, in which case exc is re-raised
CanRetry(retries) == retries < MaxRetries

\* The except-branch of the task: the unit is saved as FAILED with the
\* exception text, then self.retry.
TaskExcept(u, text) ==
    /\ unitStatus' = [unitStatus EXCEPT ![u] = "FAILED"]
    /\ unitError' = [unitError EXCEPT ![u] = text]
    /\ pc' = [pc EXCEPT ![u] = "idle"]
    /\ IF CanRetry(taskRetries[u])
       THEN /\ queue' = queue \cup
                  {TaskMsg(u, taskRetries[u] + 1,
                           RetryCountdown(taskRetries[u]))}
            /\ UNCHANGED exhausted
       ELSE /\ exhausted' = [exhausted EXCEPT ![u] = TRUE]
            /\ UNCHANGED queue

\* A worker takes the task of unit u: status RUNNING is saved.
TaskStart(u) ==
    /\ UNCHANGED exceptStage1
    /\ pc[u] = "idle"
    /\ \E m \in queue :
         /\ m.unit = u
         /\ queue' = queue \ {m}
         /\ taskRetries' = [taskRetries EXCEPT ![u] = m.retries]
    /\ unitStatus' = [unitStatus EXCEPT ![u] = "RUNNING"]
    /\ pc' = [pc EXCEPT ![u] = "running"]
    /\ attempts' = [attempts EXCEPT ![u] = @ + 1]
    /\ UNCHANGED <<unitError, unitFound, localFound, lawyers, fetchPool,
                   exhausted, runSrc>>

\* lawyers_found = crawl_single_url_basic(discovery_url)
TaskCrawl(u) ==
    /\ UNCHANGED exceptStage1
    /\ pc[u] = "running"
    /\ \E src \in fetchPool :
       \E n \in IF src.err # "" THEN MinSample..MaxSample ELSE {MinSample} :
         LET r == crawl_single_url_basic(u, src, n)
         IN /\ lawyers' = lawyers \o r.rows
            /\ runSrc' = [runSrc EXCEPT ![u] = src]
            /\ IF r.raised # ""
               THEN /\ TaskExcept(u, r.raised)
                    /\ UNCHANGED <<localFound, unitFound>>
               ELSE /\ localFound' = [localFound EXCEPT ![u] = r.found]
                    /\ pc' = [pc EXCEPT ![u] = "crawled"]
                    /\ UNCHANGED <<unitStatus, unitError, unitFound, queue,
                                   exhausted>>
    /\ UNCHANGED <<taskRetries, fetchPool, attempts>>

\* lawyers_found and status COMPLETED are saved; the task returns.
TaskComplete(u) ==
    /\ UNCHANGED exceptStage1
    /\ pc[u] = "crawled"
    /\ unitFound' = [unitFound EXCEPT ![u] = localFound[u]]
    /\ unitStatus' = [unitStatus EXCEPT ![u] = "COMPLETED"]
    /\ pc' = [pc EXCEPT ![u] = "idle"]
    /\ UNCHANGED <<unitError, queue, taskRetries, localFound, lawyers,
                   fetchPool, attempts, exhausted, runSrc>>

\* The save of the result raises (the store is unreachable for a moment): the
\* except-branch saves the unit, lawyers_found included, as FAILED.
TaskStoreFault(u) ==
    /\ UNCHANGED exceptStage1
    /\ pc[u] = "crawled"
    /\ unitFound' = [unitFound EXCEPT ![u] = localFound[u]]
    /\ TaskExcept(u, StoreError)
    /\ UNCHANGED <<taskRetries, localFound, lawyers, fetchPool, attempts,
                   runSrc>>

\* SourceConfiguration.STATUS_CHOICES
JobStatusChoices ==
    {"PENDING", "CRAWLING", "PAUSED", "RETRYING", "FAILED", "DONE",
     "CANCELLED"}

\* Field defaults of the SourceConfiguration model
JobDefaults ==
    [status |-> "PENDING", total_urls |-> 0, crawled_urls |-> 0,
     success_count |-> 0, error_count |-> 0, progress_percentage |-> <<0, 1>>]

\* No crawl_session_task is queued or running.
SessIdle == [pc |-> "idle", idx |-> 0, success_count |-> 0, error_count |-> 0,
             session |-> JobDefaults]

JobAtRest ==
    /\ job = [JobDefaults EXCEPT !.total_urls = NumUnits]
    /\ sess = SessIdle
    /\ sessQueue = 0
    /\ sessStarted = 0
    /\ aggregated = FALSE

\* A worker holds no Lawyer.
NoLawyer == [id |-> 0, row |-> LawyerDefaults]

\* No detail task is queued or running.
DetailAtRest ==
    /\ dqueue = <<>>
    /\ dpc = [w \in Workers |-> "idle"]
    /\ dLawyer = [w \in Workers |-> NoLawyer]
    /\ dReturned = {}
    /\ detailSent = 0
    /\ detailFetched = {}
    /\ dInfo = None
    /\ selected = {}
    /\ lawyers0 = <<>>

\* No operation has been applied to a Lawyer object.
NoOp ==
    [op |-> "none", email |-> "", returned |-> <<>>,
     before |-> LawyerDefaults]

EntityAtRest ==
    /\ obj = LawyerDefaults
    /\ lastOp = NoOp

ApiTypes == {"person_search", "person_lookup"}

\* RateLimiter.__init__, for a client built at time 0
NewRateLimiter ==
    [last_request_time |-> 0, request_count_minute |-> 0,
     request_count_hour |-> 0, minute_start_time |-> 0,
     hour_start_time |-> 0]

\* The client has sent no request.
LimiterAtRest ==
    /\ limiter = NewRateLimiter
    /\ clock = 0
    /\ sentThisMinute = [t \in ApiTypes |-> 0]

\* No lookup has been made and none is queued.
LookupAtRest ==
    /\ EntityAtRest
    /\ lookups = <<>>
    /\ lqueue = {}
    /\ provider = {}
    /\ apiKey = ""
    /\ lookupSent = 0
    /\ calls = <<>>
    /\ syncResult = {}
    /\ syncBefore = <<>>

\* The units, with no Stage-1 task queued or running
Stage1AtRest ==
    /\ unitStatus = [u \in Units |-> "PENDING"]
    /\ unitError = [u \in Units |-> ""]
    /\ unitFound = [u \in Units |-> 0]
    /\ queue = {}
    /\ pc = [u \in Units |-> "idle"]
    /\ taskRetries = [u \in Units |-> 0]
    /\ localFound = [u \in Units |-> 0]
    /\ fetchPool = {}
    /\ attempts = [u \in Units |-> 0]
    /\ exhausted = [u \in Units |-> FALSE]
    /\ runSrc = [u \in Units |-> [err |-> "", page |-> NoPage]]

InitUnits(tasks, pool) ==
    /\ LimiterAtRest
    /\ JobAtRest
    /\ DetailAtRest
    /\ LookupAtRest
    /\ unitStatus = [u \in Units |-> "PENDING"]
    /\ unitError = [u \in Units |-> ""]
    /\ unitFound = [u \in Units |-> 0]
    /\ queue = {TaskMsg(u, 0, 0) : u \in 1..tasks}
    /\ pc = [u \in Units |-> "idle"]
    /\ taskRetries = [u \in Units |-> 0]
    /\ localFound = [u \in Units |-> 0]
    /\ lawyers = <<>>
    /\ fetchPool = pool
    /\ attempts = [u \in Units |-> 0]
    /\ exhausted = [u \in Units |-> FALSE]
    /\ runSrc = [u \in Units |-> [err |-> "", page |-> NoPage]]

\* Stage 1 with a store that answers every write
InitStage1 == InitUnits(Stage1Tasks, FetchOutcomes)

NextStage1 ==
    \E u \in Units : TaskStart(u) \/ TaskCrawl(u) \/ TaskComplete(u)

SpecStage1 == InitStage1 /\ [][NextStage1]_vars

\* Stage 1 with a store whose writes may fail: the retry machine
RetryOutcomes ==
    {[err |-> "", page |-> [containers |-> <<CBlank>>, generic |-> <<>>]],
     [err |-> "", page |-> [containers |-> <<CNamed, CTooLong>>, generic |-> <<>>]],
     [err |-> "", page |-> [containers |-> <<CNamed>>, generic |-> <<>>]]}

InitRetry == InitUnits(RetryTasks, RetryOutcomes)

NextRetry ==
    \E u \in Units :
        TaskStart(u) \/ TaskCrawl(u) \/ TaskComplete(u) \/ TaskStoreFault(u)

SpecRetry == InitRetry /\ [][NextRetry]_vars

(***************************************************************************)
(* Job coordination: admin action step1_crawl_basic (admin.py:60-83),      *)
(* crawl_session_task (tasks.py:133-169) and update_crawl_progress         *)
(* (tasks.py:172-192)                                                      *)
(***************************************************************************)

\* extract_single_lawyer: as extract_single_lawyer_basic, without detail_url
extract_single_lawyer(container, u) ==
    LET lawyer_data == extract_single_lawyer_basic(container, u)
    IN IF lawyer_data = None THEN None
       ELSE [lawyer_data EXCEPT !.detail_url = ""]

\* extract_lawyers_from_soup
RECURSIVE ExtractAllFrom(_, _, _)
ExtractAllFrom(containers, i, u) ==
    IF i > Len(containers) THEN <<>>
    ELSE LET lawyer_data == extract_single_lawyer(containers[i], u)
             created == IF lawyer_data = None \/ ~containers[i].fits
                        THEN <<>>
                        ELSE <<LawyerSave(lawyer_data)>>
         IN created \o ExtractAllFrom(containers, i + 1, u)

extract_lawyers_from_soup(page, u) ==
    ExtractAllFrom(find_lawyer_containers(page), 1, u)

\* crawl_single_url / crawl_lawinfo_with_real_html
crawl_single_url(u, src, num_lawyers) ==
    IF src.err # ""
    THEN create_sample_lawyers_for_url(u, num_lawyers)
    ELSE LET rows == extract_lawyers_from_soup(src.page, u)
         IN [found |-> Len(rows), rows |-> rows, raised |-> ""]

\* progress_percentage = (crawled_urls / total_urls * 100) if total_urls > 0
\* else 0, kept as the fraction <<numerator, denominator>>
Percentage(crawled_urls, total_urls) ==
    IF total_urls > 0 THEN <<crawled_urls * 100, total_urls>> ELSE <<0, 1>>

\* The body of update_crawl_progress on the stored row
ProgressUpdated(session) ==
    [session EXCEPT !.progress_percentage =
        Percentage(session.crawled_urls, session.total_urls)]

\* Admin action step1_crawl_basic on the Job
step1_crawl_basic ==
    /\ job.status # "CRAWLING"
    /\ sessStarted < MaxSessions
    /\ job' = [job EXCEPT !.status = "CRAWLING"]
    /\ sessQueue' = sessQueue + 1
    /\ sessStarted' = sessStarted + 1
    /\ UNCHANGED <<sess, aggregated, unitStatus, unitError, unitFound, lawyers,
                   exceptJob>>

\* crawl_session_task up to the loop: the row is loaded and saved as
\* DISCOVERING, update_crawl_progress is called, the units are listed.
SessionStart ==
    /\ sessQueue > 0
    /\ sess.pc = "idle"
    /\ sessQueue' = sessQueue - 1
    /\ LET session == [job EXCEPT !.status = "DISCOVERING"]
       IN /\ job' = ProgressUpdated(session)
          /\ sess' = [pc |-> "loop", idx |-> 1, success_count |-> 0,
                      error_count |-> 0, session |-> session]
    /\ aggregated' = TRUE
    /\ UNCHANGED <<sessStarted, unitStatus, unitError, unitFound, lawyers,
                   exceptJob>>

\* One turn of the loop over the units
SessionCrawlUnit ==
    /\ sess.pc = "loop"
    /\ sess.idx <= NumUnits
    /\ \E src \in fetchPool :
       \E n \in IF src.err # "" THEN MinSample..MaxSample ELSE {MinSample} :
         LET u == sess.idx
             r == crawl_single_url(u, src, n)
         IN /\ lawyers' = lawyers \o r.rows
            /\ IF r.raised = ""
               THEN /\ unitStatus' = [unitStatus EXCEPT ![u] = "completed"]
                    /\ unitFound' = [unitFound EXCEPT ![u] = r.found]
                    /\ sess' = [sess EXCEPT !.idx = @ + 1,
                                            !.success_count = @ + 1]
                    /\ UNCHANGED unitError
               ELSE /\ unitStatus' = [unitStatus EXCEPT ![u] = "failed"]
                    /\ unitError' = [unitError EXCEPT ![u] = r.raised]
                    /\ sess' = [sess EXCEPT !.idx = @ + 1,
                                            !.error_count = @ + 1]
                    /\ UNCHANGED unitFound
    /\ aggregated' = FALSE
    /\ UNCHANGED <<job, sessQueue, sessStarted, exceptJob>>

\* After the loop: the row the task loaded at its start is saved with the
\* counts of the loop and status DONE.
SessionFinish ==
    /\ sess.pc = "loop"
    /\ sess.idx > NumUnits
    /\ job' = [sess.session EXCEPT !.success_count = sess.success_count,
                                   !.error_count = sess.error_count,
                                   !.status = "DONE"]
    /\ sess' = SessIdle
    /\ aggregated' = TRUE
    /\ UNCHANGED <<sessQueue, sessStarted, unitStatus, unitError, unitFound,
                   lawyers, exceptJob>>

\* update_crawl_progress run as a task of its own
update_crawl_progress ==
    /\ job' = ProgressUpdated(job)
    /\ aggregated' = TRUE
    /\ UNCHANGED <<sess, sessQueue, sessStarted, unitStatus, unitError,
                   unitFound, lawyers, exceptJob>>

\* Listing pages of the environment of the Job
JobOutcomes ==
    {[err |-> "", page |-> NoPage],
     [err |-> "", page |-> [containers |-> <<CNamed>>, generic |-> <<>>]]}

\* A Job whose units have been run by Stage-1 tasks before: every unit is
\* PENDING, COMPLETED or FAILED; total_urls is as the operator entered it.
InitJob ==
    /\ LimiterAtRest
    /\ \E total \in {0, NumUnits} :
          job = [JobDefaults EXCEPT !.total_urls = total]
    /\ sess = SessIdle
    /\ sessQueue = 0
    /\ sessStarted = 0
    /\ aggregated = FALSE
    /\ DetailAtRest
    /\ LookupAtRest
    /\ unitStatus \in [Units -> {"PENDING", "COMPLETED", "FAILED"}]
    /\ unitError = [u \in Units |->
                      IF unitStatus[u] = "FAILED" THEN StoreError ELSE ""]
    /\ unitFound = [u \in Units |-> 0]
    /\ queue = {}
    /\ pc = [u \in Units |-> "idle"]
    /\ taskRetries = [u \in Units |-> 0]
    /\ localFound = [u \in Units |-> 0]
    /\ lawyers = <<>>
    /\ fetchPool = JobOutcomes
    /\ attempts = [u \in Units |-> 0]
    /\ exhausted = [u \in Units |-> FALSE]
    /\ runSrc = [u \in Units |-> [err |-> "", page |-> NoPage]]

NextJob ==
    \/ step1_crawl_basic
    \/ SessionStart
    \/ SessionCrawlUnit
    \/ SessionFinish
    \/ update_crawl_progress

SpecJob == InitJob /\ [][NextJob]_vars

(***************************************************************************)
(* Stage 1 under a queue that may deliver a task message more than once    *)
(***************************************************************************)

\* The broker delivers the message of crawl_basic_lawyer_info_task for unit u
\* again after the task has returned.
TaskRedelivered(u) ==
    /\ UNCHANGED exceptStage1
    /\ pc[u] = "idle"
    /\ attempts[u] >= 1
    /\ attempts[u] < MaxDeliveries
    /\ \A msg \in queue : msg.unit # u
    /\ queue' = queue \cup {TaskMsg(u, taskRetries[u], 0)}
    /\ UNCHANGED <<unitVars, pc, taskRetries, localFound, lawyers, fetchPool,
                   attempts, exhausted, runSrc>>

InitRedeliver == InitUnits(NumUnits, JobOutcomes)

NextRedeliver ==
    \E u \in Units :
        TaskStart(u) \/ TaskCrawl(u) \/ TaskComplete(u) \/ TaskRedelivered(u)

SpecRedeliver == InitRedeliver /\ [][NextRedeliver]_vars

(***************************************************************************)
(* Cancellation and the administrative purge: the status field of the      *)
(* admin change form (admin.py:10-21), the admin action clear_celery_tasks *)
(* (admin.py:182-216) and the command of the same name                     *)
(* (clear_celery_tasks.py:20-59)                                           *)
(***************************************************************************)

exceptControl == <<limiterVars, detailVars, lookupVars, syncVars, entityVars>>

\* The operator saves the Job with status CANCELLED while its crawl is in
\* progress.
CancelJob ==
    /\ job.status \in {"CRAWLING", "DISCOVERING"}
    /\ job' = [job EXCEPT !.status = "CANCELLED"]
    /\ UNCHANGED <<sess, sessQueue, sessStarted, aggregated, unitVars,
                   taskVars, lawyers, exceptControl>>

\* The units whose Stage-1 task is being executed by a worker
ActiveUnits == {u \in Units : pc[u] # "idle"}

\* clear_celery_tasks: every active task is revoked with terminate=True
\* (killed and sessKilled are the tasks the termination reaches before they
\* end by themselves), the queues are purged, and the Job goes from CRAWLING
\* to PENDING when reset holds (the option --reset-sources of the command;
\* the Job being among the rows selected for the admin action).
clear_celery_tasks(reset, killed, sessKilled) ==
    /\ killed \subseteq ActiveUnits
    /\ sessKilled => sess.pc # "idle"
    /\ pc' = [u \in Units |-> IF u \in killed THEN "idle" ELSE pc[u]]
    /\ sess' = IF sessKilled THEN SessIdle ELSE sess
    /\ queue' = {}
    /\ sessQueue' = 0
    /\ job' = IF reset /\ job.status = "CRAWLING"
              THEN [job EXCEPT !.status = "PENDING"]
              ELSE job
    /\ UNCHANGED <<sessStarted, aggregated, unitVars, taskRetries,
                   localFound, fetchPool, attempts, exhausted, runSrc,
                   lawyers, exceptControl>>

\* A Job with a Stage-1 task queued for every unit
InitControl == InitUnits(NumUnits, JobOutcomes)

NextControl ==
    \/ step1_crawl_basic
    \/ SessionStart
    \/ SessionCrawlUnit
    \/ SessionFinish
    \/ \E u \in Units : TaskStart(u) \/ TaskCrawl(u) \/ TaskComplete(u)
    \/ CancelJob
    \/ \E reset, sessKilled \in BOOLEAN : \E killed \in SUBSET Units :
          clear_celery_tasks(reset, killed, sessKilled)

SpecControl == InitControl /\ [][NextControl]_vars

(***************************************************************************)
(* Stage 2: admin action step2_crawl_detail (admin.py:86-117) and          *)
(* crawl_lawyer_detail_task (tasks.py:680-728)                             *)
(***************************************************************************)

\* A fetched detail page as extract_lawyer_detail_from_soup sees it: the text
\* of the description selector, the joined texts of the attorneys selector
\* and of the office_locations selector ("" when nothing is found).
DetailPages ==
    {[description |-> "", attorneys |-> "", locations |-> ""],
     [description |-> "Founded in 1990", attorneys |-> "Jane Roe",
      locations |-> "Tempe"]}

\* extract_lawyer_detail_from_soup: the selectors of "<domain>_detail" exist
\* for lawinfo only; any other domain gets the lawinfo listing selectors,
\* which have a description and neither attorneys nor office_locations.
extract_lawyer_detail_from_soup(page, domain) ==
    LET description == page.description
        attorneys == IF domain = "lawinfo" THEN page.attorneys ELSE ""
        locations == IF domain = "lawinfo" THEN page.locations ELSE ""
    IN [attorney_details |->
            IF attorneys # ""
            THEN description \o "\n\nAttorneys: " \o attorneys
            ELSE description,
        address |->
            IF locations # ""
            THEN "" \o "\n\nOffice Locations: " \o locations
            ELSE ""]

\* What crawl_lawyer_detail gives: None when the fetch raises, else the
\* detail_info of extract_lawyer_detail_from_soup, in which a key is present
\* only with a non-empty value ("" stands for an absent key).
DetailInfos ==
    {extract_lawyer_detail_from_soup(page, "lawinfo") : page \in DetailPages}

DetailOutcomes == DetailInfos \cup {None}

\* if detail_info: (a dict with at least one key)
Truthy(detail_info) ==
    /\ detail_info # None
    /\ (detail_info.attorney_details # "" \/ detail_info.address # "")

\* The filter of step2_crawl_detail: source_url__in=source.start_urls,
\* is_detail_crawled=False, detail_url__isnull=False, exclude(detail_url='')
NeedsDetailCrawl(lawyer) ==
    /\ lawyer.source_url \in Units
    /\ lawyer.is_detail_crawled = FALSE
    /\ lawyer.detail_url # ""

\* Variant of the guards of crawl_lawyer_detail_task without the flag check
EarlyReturnUrlOnly(lawyer) ==
    IF lawyer.detail_url = "" THEN "has no detail URL" ELSE ""

\* The guards of crawl_lawyer_detail_task: the message it returns early with,
\* "" when it goes on to the fetch
EarlyReturn(lawyer) ==
    IF lawyer.detail_url = "" THEN "has no detail URL"
    ELSE IF lawyer.is_detail_crawled THEN "already detail crawled"
    ELSE ""

\* setattr(lawyer, field, value) for every non-empty value of detail_info,
\* is_detail_crawled = True, lawyer.save()
MergeDetail(lawyer, detail_info) ==
    LawyerSave(
        [lawyer EXCEPT
            !.attorney_details = IF detail_info.attorney_details # ""
                                 THEN detail_info.attorney_details ELSE @,
            !.address = IF detail_info.address # ""
                        THEN detail_info.address ELSE @,
            !.is_detail_crawled = TRUE])

\* Admin action step2_crawl_detail: one task per selected Lawyer
step2_crawl_detail ==
    /\ detailSent < MaxDetailSends
    /\ detailSent' = detailSent + 1
    /\ LET ids == {l \in 1..Len(lawyers) : NeedsDetailCrawl(lawyers[l])}
       IN /\ dqueue' = [l \in 1..Len(lawyers) |->
                          IF l \in ids THEN dqueue[l] + 1 ELSE dqueue[l]]
          /\ selected' = selected \cup {lawyers[l] : l \in ids}
    /\ UNCHANGED <<dpc, dLawyer, dReturned, detailFetched, dInfo, lawyers0, lawyers,
                   exceptDetail>>

\* crawl_lawyer_detail_task.delay(lawyer_id) by any other sender, or the
\* broker delivering a message again
DetailTaskSent(l) ==
    /\ detailSent < MaxDetailSends
    /\ detailSent' = detailSent + 1
    /\ dqueue' = [dqueue EXCEPT ![l] = @ + 1]
    /\ UNCHANGED <<dpc, dLawyer, dReturned, detailFetched, dInfo, selected, lawyers0,
                   lawyers, exceptDetail>>

\* A worker takes a detail task: the Lawyer is loaded and the guards run.
DetailStart(w, l) ==
    /\ dpc[w] = "idle"
    /\ dqueue[l] > 0
    /\ dqueue' = [dqueue EXCEPT ![l] = @ - 1]
    /\ LET lawyer == lawyers[l]
       IN IF EarlyReturn(lawyer) # ""
          THEN /\ dReturned' = dReturned \cup {EarlyReturn(lawyer)}
               /\ UNCHANGED <<dpc, dLawyer>>
          ELSE /\ dpc' = [dpc EXCEPT ![w] = "fetching"]
               /\ dLawyer' = [dLawyer EXCEPT ![w] = [id |-> l, row |-> lawyer]]
               /\ UNCHANGED dReturned
    /\ UNCHANGED <<detailSent, detailFetched, dInfo, selected, lawyers0, lawyers,
                   exceptDetail>>

\* detail_info = crawl_lawyer_detail(lawyer), then the merge and the save
DetailFetch(w) ==
    /\ dpc[w] = "fetching"
    /\ detailFetched' = detailFetched \cup {dLawyer[w].id}
    /\ dpc' = [dpc EXCEPT ![w] = "idle"]
    /\ dLawyer' = [dLawyer EXCEPT ![w] = NoLawyer]
    /\ \E detail_info \in DetailOutcomes :
         /\ dInfo' = detail_info
         /\ IF Truthy(detail_info)
            THEN /\ lawyers' = [lawyers EXCEPT ![dLawyer[w].id] =
                                   MergeDetail(dLawyer[w].row, detail_info)]
                 /\ dReturned' = dReturned \cup
                                   {"Successfully crawled detailed info"}
            ELSE /\ dReturned' = dReturned \cup {"No detailed info found"}
                 /\ UNCHANGED lawyers
    /\ UNCHANGED <<dqueue, detailSent, selected, lawyers0, exceptDetail>>

\* Lawyer rows as Stage 1 and the operator leave them: of a lawinfo unit (with
\* a detail URL) or of a superlawyers unit (without), detail-crawled or not.
DetailRows ==
    {[LawyerSave(extract_single_lawyer_basic(CNamed, u)) EXCEPT
         !.is_detail_crawled = crawled] :
       u \in {1, 2}, crawled \in BOOLEAN}

InitDetail ==
    /\ LimiterAtRest
    /\ JobAtRest
    /\ Stage1AtRest
    /\ LookupAtRest
    /\ lawyers \in [1..NumEntities -> DetailRows]
    /\ lawyers0 = lawyers
    /\ dqueue = [l \in 1..NumEntities |-> 0]
    /\ dpc = [w \in Workers |-> "idle"]
    /\ dLawyer = [w \in Workers |-> NoLawyer]
    /\ dReturned = {}
    /\ detailSent = 0
    /\ detailFetched = {}
    /\ dInfo = None
    /\ selected = {}

NextDetail ==
    \/ step2_crawl_detail
    \/ \E l \in 1..NumEntities : DetailTaskSent(l)
    \/ \E w \in Workers : \E l \in 1..NumEntities : DetailStart(w, l)
    \/ \E w \in Workers : DetailFetch(w)

SpecDetail == InitDetail /\ [][NextDetail]_vars

(***************************************************************************)
(* Stage 3: the RocketReach email lookup                                   *)
(***************************************************************************)

\* Python None where the code holds a string or None
NullText == "<None>"

\* The provider's responses.  A search response carries profiles, a person
\* lookup response carries emails.
ProfessionalEmail ==
    [email |-> "jane@acme.com", type |-> "professional", grade |-> "A",
     smtp_valid |-> "valid"]

PersonalEmail ==
    [email |-> "jroe@mail.com", type |-> "personal", grade |-> "B",
     smtp_valid |-> "invalid"]

LawProfile ==
    [id |-> 7, name |-> "Jane Roe", current_title |-> "Partner",
     current_employer |-> "Acme Law"]

OtherProfile ==
    [id |-> 9, name |-> "Bo Ray", current_title |-> "Chef",
     current_employer |-> "Bistro"]

Response(status_code, profiles, emails) ==
    [status_code |-> status_code, profiles |-> profiles, emails |-> emails]

ErrorCodes == {404, 401, 403, 429, 500}

SearchResponses ==
    {Response(200, p, <<>>) : p \in {<<>>, <<LawProfile>>, <<OtherProfile>>}}
        \cup {Response(c, <<>>, <<>>) : c \in ErrorCodes}

PersonResponses ==
    {Response(200, <<>>, e) : e \in {<<>>, <<PersonalEmail, ProfessionalEmail>>}}
        \cup {Response(404, <<>>, <<>>)}

\* What the provider answers within one attempt: the first search requests
\* get the responses of head, every later one gets tail; every person lookup
\* gets person.
Scripts ==
    [head : UNION {[1..n -> SearchResponses] : n \in 0..MaxHead},
     tail : SearchResponses,
     person : PersonResponses]

\* The provider of a deployment without a key, which no request reaches
Unreached ==
    [head |-> <<>>, tail |-> Response(401, <<>>, <<>>),
     person |-> Response(404, <<>>, <<>>)]

Respond(script, p) ==
    IF p <= Len(script.head) THEN script.head[p] ELSE script.tail

\* APIErrorHandler.handle_rate_limit, for a response without a Retry-After
\* header
handle_rate_limit(response) ==
    IF response.status_code = 429 THEN DefaultRetryAfter ELSE 0

\* APIErrorHandler.handle_api_error: TRUE when it raises HTTPError
handle_api_error(response) == response.status_code \in {400, 401, 403, 500}

\* The outcome of a call that raised
Raised == [raised |-> TRUE, data |-> None]

Returned(data) == [raised |-> FALSE, data |-> data]

\* RocketReachAPI._make_search_request, when sent requests were already
\* made in this attempt: the response used and the status codes received
make_search_request(script, sent) ==
    LET response == Respond(script, sent + 1)
    IN IF handle_rate_limit(response) > 0
       THEN [response |-> Respond(script, sent + 2),
             codes |-> <<response.status_code,
                         Respond(script, sent + 2).status_code>>]
       ELSE [response |-> response, codes |-> <<response.status_code>>]

\* RocketReachAPI._process_search_response
process_search_response(response) ==
    IF handle_api_error(response) THEN Raised
    ELSE IF response.status_code \in {200, 201}
         THEN Returned([profiles |-> response.profiles])
    ELSE IF response.status_code = 404 THEN Returned([profiles |-> <<>>])
    ELSE Raised

\* RocketReachAPI.search_person
search_person(script, sent) ==
    LET request == make_search_request(script, sent)
    IN [outcome |-> process_search_response(request.response),
        codes |-> request.codes]

\* RocketReachAPI._make_lookup_request
make_lookup_request(script) ==
    IF handle_rate_limit(script.person) > 0
    THEN [response |-> script.person,
          codes |-> <<script.person.status_code, script.person.status_code>>]
    ELSE [response |-> script.person,
          codes |-> <<script.person.status_code>>]

\* RocketReachAPI._process_lookup_response
process_lookup_response(response) ==
    IF handle_api_error(response) THEN Raised
    ELSE IF response.status_code \in {200, 201}
         THEN Returned([emails |-> response.emails])
    ELSE IF response.status_code = 404 THEN Returned([emails |-> <<>>])
    ELSE Raised

\* RocketReachAPI.lookup_person
lookup_person(script) ==
    LET request == make_lookup_request(script)
    IN [outcome |-> process_lookup_response(request.response),
        codes |-> request.codes]

\* EmailProcessor.extract_emails_from_lookup
extract_emails_from_lookup(lookup_result) ==
    SelectSeq(lookup_result.emails, LAMBDA e : e.email # "")

\* EmailProcessor.find_best_email
find_best_email(employee_emails) ==
    LET withEmails == SelectSeq(employee_emails,
                                LAMBDA emp : emp.actual_emails # <<>>)
    IN IF withEmails = <<>> THEN NullText
       ELSE LET actual_emails == withEmails[1].actual_emails
                professional ==
                    SelectSeq(actual_emails,
                              LAMBDA e : /\ e.type = "professional"
                                         /\ e.grade \in {"A", "A-", "B+", "B"}
                                         /\ e.smtp_valid = "valid")
                valid == SelectSeq(actual_emails,
                                   LAMBDA e : e.smtp_valid = "valid")
            IN IF professional # <<>> THEN professional[1].email
               ELSE IF valid # <<>> THEN valid[1].email
               ELSE actual_emails[1].email

\* str.split and the f-string join of the names that occur
NameParts(name) ==
    CASE name = "" -> <<>>
      [] name = "Jane Roe" -> <<"Jane", "Roe">>
      [] name = "Acme Law" -> <<"Acme", "Law">>
      [] name = "Ann Lee Esq" -> <<"Ann", "Lee", "Esq">>
      [] name = "Rex Tom Sid Jo" -> <<"Rex", "Tom", "Sid", "Jo">>
      [] OTHER -> <<name>>

JoinWords(first, last) ==
    CASE first = "Jane" /\ last = "Roe" -> "Jane Roe"
      [] first = "Acme" /\ last = "Law" -> "Acme Law"
      [] first = "Ann" /\ last = "Esq" -> "Ann Esq"
      [] first = "Rex" /\ last = "Jo" -> "Rex Jo"

\* NameVariationGenerator.generate_name_variations
generate_name_variations(lawyer_name) ==
    IF lawyer_name # ""
    THEN LET name_parts == NameParts(lawyer_name)
         IN IF Len(name_parts) >= 2
            THEN <<lawyer_name, name_parts[1],
                   JoinWords(name_parts[1], name_parts[Len(name_parts)]),
                   name_parts[Len(name_parts)]>>
            ELSE <<lawyer_name>>
    ELSE <<"Attorney", "Lawyer", "Partner">>

\* ProfileFilter.LAW_KEYWORDS found in the lower-cased text
LawKeywordsIn(text) ==
    CASE text = "Partner" -> {"partner"}
      [] text = "Acme Law" -> {"law"}
      [] OTHER -> {}

\* ProfileFilter.filter_law_profiles
filter_law_profiles(profiles) ==
    SelectSeq(profiles,
              LAMBDA profile : \/ LawKeywordsIn(profile.current_title) # {}
                               \/ LawKeywordsIn(profile.current_employer) # {})

\* The loop of _search_with_name_variations from variation i on;
\* search_results is the last value a search returned (None before the
\* first), codes the status codes received so far
RECURSIVE TryVariations(_, _, _, _, _)
TryVariations(name_variations, i, search_results, codes, script) ==
    IF i > Len(name_variations)
    THEN [search_results |-> search_results, codes |-> codes]
    ELSE LET searched == search_person(script, Len(codes))
             received == codes \o searched.codes
         IN IF searched.outcome.raised
            THEN TryVariations(name_variations, i + 1, search_results,
                               received, script)
            ELSE LET profiles == searched.outcome.data.profiles
                     law_profiles == filter_law_profiles(profiles)
                 IN IF profiles # <<>> /\ law_profiles # <<>>
                    THEN [search_results |-> [profiles |-> law_profiles],
                          codes |-> received]
                    ELSE TryVariations(name_variations, i + 1,
                                       searched.outcome.data, received,
                                       script)

\* RocketReachLookupService._search_with_name_variations
search_with_name_variations(lawyer_name, company_name, script) ==
    LET generated == generate_name_variations(lawyer_name)
        name_variations == IF lawyer_name = "" /\ company_name # ""
                           THEN Append(generated, company_name)
                           ELSE generated
        tried == TryVariations(name_variations, 1, None, <<>>, script)
    IN IF tried.search_results = None
       THEN [search_results |-> [profiles |-> <<>>], codes |-> tried.codes]
       ELSE tried

\* RocketReachLookupService._lookup_person_emails
lookup_person_emails(profile, script) ==
    IF profile.id # 0 \/ (profile.name # "" /\ profile.current_employer # "")
    THEN LET looked == lookup_person(script)
         IN [actual_emails |-> IF looked.outcome.raised THEN <<>>
                               ELSE extract_emails_from_lookup(
                                        looked.outcome.data),
             codes |-> looked.codes]
    ELSE [actual_emails |-> <<>>, codes |-> <<>>]

\* An element of employee_emails
EmployeeEmail(name, title, company, actual_emails) ==
    [name |-> name, title |-> title, company |-> company,
     actual_emails |-> actual_emails]

\* RocketReachLookupService._process_profiles_for_emails, from profile i on
RECURSIVE ProcessProfiles(_, _, _, _, _)
ProcessProfiles(profiles, i, employee_emails, codes, script) ==
    IF i > Len(profiles)
    THEN [employee_emails |-> employee_emails, codes |-> codes]
    ELSE LET looked == lookup_person_emails(profiles[i], script)
         IN ProcessProfiles(
                profiles, i + 1,
                Append(employee_emails,
                       EmployeeEmail(profiles[i].name,
                                     profiles[i].current_title,
                                     profiles[i].current_employer,
                                     looked.actual_emails)),
                codes \o looked.codes, script)

\* ResultBuilder.build_success_result
build_success_result(best_email, employee_emails) ==
    [success |-> TRUE, status |-> "found", email |-> best_email,
     confidence_score |-> "0.5", employee_emails |-> employee_emails,
     error |-> NullText]

\* ResultBuilder.build_not_found_result
build_not_found_result(employee_emails) ==
    [success |-> FALSE, status |-> "not_found", email |-> NullText,
     confidence_score |-> "0", employee_emails |-> employee_emails,
     error |-> NullText]

\* RocketReachLookupService._build_final_result; best_match is profiles[0]
build_final_result(profiles, employee_emails) ==
    IF profiles # <<>>
    THEN build_success_result(find_best_email(employee_emails),
                              employee_emails)
    ELSE build_not_found_result(employee_emails)

\* RocketReachLookupService.find_lawyer_email: its result and the status
\* codes of the responses it received, in order.  Each step's value is bound
\* once (as the element of a singleton) and handed to the next step.
find_lawyer_email(lawyer_name, company_name, script) ==
    LET Built(found, processed) ==
            [result |-> build_final_result(found.search_results.profiles,
                                           processed.employee_emails),
             codes |-> processed.codes]
        Processed(found) ==
            CHOOSE out \in
                {Built(found, processed) :
                    processed \in {ProcessProfiles(
                                       found.search_results.profiles, 1,
                                       <<>>, found.codes, script)}} : TRUE
    IN CHOOSE out \in
           {Processed(found) :
               found \in {search_with_name_variations(
                              lawyer_name, company_name, script)}} : TRUE

\* add_company_email without the check for an existing email
AddWithoutCheck(self, email, email_type, contact_name, contact_title, score) ==
    [self EXCEPT
        !.company_emails =
            Append(@, [email |-> email, type |-> email_type,
                       contact_name |-> contact_name,
                       contact_title |-> contact_title,
                       source |-> "rocketreach", confidence |-> score,
                       verified |-> FALSE])]

\* Lawyer.add_company_email
add_company_email(self, email, email_type, contact_name, contact_title, score) ==
    IF \E i \in 1..Len(self.company_emails) :
           self.company_emails[i].email = email
    THEN self
    ELSE [self EXCEPT
             !.company_emails =
                 Append(@, [email |-> email, type |-> email_type,
                            contact_name |-> contact_name,
                            contact_title |-> contact_title,
                            source |-> "rocketreach",
                            confidence |-> score,
                            verified |-> FALSE])]

\* The add_company_email loop over the emails of one employee, from email j
RECURSIVE AddEmails(_, _, _)
AddEmails(lawyer, emp, j) ==
    IF j > Len(emp.actual_emails) THEN lawyer
    ELSE LET email_info == emp.actual_emails[j]
         IN AddEmails(
                IF email_info.email = "" THEN lawyer
                ELSE add_company_email(
                         lawyer, email_info.email, email_info.type,
                         emp.name, emp.title,
                         IF email_info.smtp_valid = "valid" THEN "0.8"
                         ELSE "0.5"),
                emp, j + 1)

\* The loop of _sync_individual_attorney_emails from employee i on
RECURSIVE AddAllEmails(_, _, _)
AddAllEmails(lawyer, employee_emails, i) ==
    IF i > Len(employee_emails) THEN lawyer
    ELSE AddAllEmails(AddEmails(lawyer, employee_emails[i], 1),
                      employee_emails, i + 1)

\* RocketReachLookupService._sync_individual_attorney_emails
sync_individual_attorney_emails(lawyer, best_email, employee_emails) ==
    LET primary == IF best_email \notin {NullText, ""} /\ lawyer.email = ""
                   THEN [lawyer EXCEPT !.email = best_email]
                   ELSE lawyer
    IN LawyerSave(AddAllEmails(primary, employee_emails, 1))

\* The employee_contacts entry _sync_law_firm_emails builds for emp
EmployeeContact(emp) ==
    [name |-> emp.name, title |-> emp.title, company |-> emp.company,
     emails |-> [j \in 1..Len(emp.actual_emails) |->
                     emp.actual_emails[j].email],
     phone |-> "", linkedin |-> "", source |-> "rocketreach",
     confidence |-> "high"]

\* _sync_law_firm_emails without the existing-employee check
PutContactAppend(employee_contacts, employee_contact) ==
    Append(employee_contacts, employee_contact)

\* The existing-employee check of _sync_law_firm_emails: update the first
\* entry with the same name and title, else append
PutContact(employee_contacts, employee_contact) ==
    LET same == {i \in 1..Len(employee_contacts) :
                     /\ employee_contacts[i].name = employee_contact.name
                     /\ employee_contacts[i].title = employee_contact.title}
    IN IF same # {}
       THEN LET first == CHOOSE i \in same : \A k \in same : i <= k
            IN [employee_contacts EXCEPT ![first] = employee_contact]
       ELSE Append(employee_contacts, employee_contact)

\* The loop of _sync_law_firm_emails from employee i on
RECURSIVE AddContacts(_, _, _)
AddContacts(lawyer, employee_emails, i) ==
    IF i > Len(employee_emails) THEN lawyer
    ELSE LET emp == employee_emails[i]
             withEmails == AddEmails(lawyer, emp, 1)
         IN AddContacts(
                IF emp.actual_emails # <<>>
                THEN [withEmails EXCEPT
                         !.employee_contacts =
                             PutContact(@, EmployeeContact(emp))]
                ELSE withEmails,
                employee_emails, i + 1)

\* RocketReachLookupService._sync_law_firm_emails
sync_law_firm_emails(lawyer, best_email, employee_emails) ==
    LawyerSave(AddContacts(lawyer, employee_emails, 1))

\* RocketReachLookupService._sync_unknown_entity_emails
sync_unknown_entity_emails(lawyer, best_email, employee_emails) ==
    IF Len(employee_emails) = 1
       /\ employee_emails[1].name = lawyer.attorney_name
    THEN sync_individual_attorney_emails(lawyer, best_email, employee_emails)
    ELSE sync_law_firm_emails(lawyer, best_email, employee_emails)

\* A sync that sets the primary email of a law firm too
SyncFirmAsIndividual(lawyer, result) ==
    IF lawyer.entity_type \in {"individual_attorney", "law_firm"}
    THEN sync_individual_attorney_emails(lawyer, result.email,
                                         result.employee_emails)
    ELSE sync_unknown_entity_emails(lawyer, result.email,
                                    result.employee_emails)

\* RocketReachLookupService._sync_emails_to_lawyer: the Lawyer row after it
sync_emails_to_lawyer(lawyer, result) ==
    IF lawyer.entity_type = "individual_attorney"
    THEN sync_individual_attorney_emails(lawyer, result.email,
                                         result.employee_emails)
    ELSE IF lawyer.entity_type = "law_firm"
    THEN sync_law_firm_emails(lawyer, result.email, result.employee_emails)
    ELSE sync_unknown_entity_emails(lawyer, result.email,
                                    result.employee_emails)

\* A RocketReachLookup row as RocketReachLookup.objects.create makes it
LookupRecord(l) ==
    [lawyer |-> l, status |-> "in_progress", email |-> NullText,
     confidence_score |-> "0.0", employee_emails |-> <<>>]

\* The statuses _get_existing_lookup accepts
ReusableStatuses == {"completed", "found"}

CompletedOnly == {"completed"}

\* RocketReachLookupService._get_existing_lookup: the id of the newest
\* record of lawyer l with an accepted status, 0 when there is none
ExistingAmong(table, l, statuses) ==
    LET ids == {i \in 1..Len(table) :
                    table[i].lawyer = l /\ table[i].status \in statuses}
    IN IF ids = {} THEN 0 ELSE CHOOSE i \in ids : \A k \in ids : k <= i

get_existing_lookup_completed(table, l) == ExistingAmong(table, l, CompletedOnly)

get_existing_lookup(table, l) == ExistingAmong(table, l, ReusableStatuses)

\* RocketReachLookupService._build_existing_lookup_result
build_existing_lookup_result(existing_lookup, id) ==
    [success |-> TRUE, email |-> existing_lookup.email,
     confidence |-> existing_lookup.confidence_score,
     status |-> existing_lookup.status, lookup_id |-> id,
     error |-> NullText]

\* The status _update_lookup_with_result stores for a result whose success
\* is False
StatusAlwaysFailed(result) == "failed"

StatusOfFailure(result) == result.status

\* RocketReachLookupService._update_lookup_with_result: the record after it
update_lookup_with_result(lookup, result) ==
    IF result.success # FALSE
    THEN [lookup EXCEPT !.email = result.email,
                        !.confidence_score = result.confidence_score,
                        !.employee_emails = result.employee_emails,
                        !.status = result.status]
    ELSE [lookup EXCEPT !.status = StatusOfFailure(result),
                        !.employee_emails = result.employee_emails]

\* RocketReachLookupService._build_lookup_result
build_lookup_result(result, lookup, id) ==
    [success |-> result.success, email |-> result.email,
     confidence |-> result.confidence_score, status |-> lookup.status,
     lookup_id |-> id, error |-> result.error]

\* The part of lookup_lawyer_email after find_lawyer_email returned found:
\* the record is updated and stored, the emails are synced to the Lawyer
Recorded(table, rows, lawyer_id, found) ==
    LET id == Len(table) + 1
        lookup == update_lookup_with_result(LookupRecord(lawyer_id),
                                            found.result)
    IN [lookup |-> build_lookup_result(found.result, lookup, id),
        lookups |-> Append(table, lookup),
        lawyers |-> IF found.result.success # FALSE
                    THEN [rows EXCEPT ![lawyer_id] =
                             sync_emails_to_lawyer(@, found.result)]
                    ELSE rows,
        created |-> id, codes |-> found.codes]

\* RocketReachLookupService.lookup_lawyer_email on the tables given: the
\* dict it returns, the tables after it, the id of the record it created
\* (0 when none) and the status codes of the responses it received
lookup_lawyer_email(table, rows, lawyer_id, force_refresh, script) ==
    LET existing == get_existing_lookup(table, lawyer_id)
    IN IF ~force_refresh /\ existing # 0
       THEN [lookup |-> build_existing_lookup_result(table[existing],
                                                     existing),
             lookups |-> table, lawyers |-> rows, created |-> 0,
             codes |-> <<>>]
       ELSE CHOOSE out \in
                {Recorded(table, rows, lawyer_id, found) :
                    found \in {find_lawyer_email(
                                   rows[lawyer_id].attorney_name,
                                   rows[lawyer_id].company_name,
                                   script)}} : TRUE

\* countdown=60 * (2 ** self.request.retries)
RECURSIVE Pow2(_)
Pow2(n) == IF n = 0 THEN 1 ELSE 2 * Pow2(n - 1)

LookupCountdown(retries) == LookupBackoffUnit * Pow2(retries)

\* A lookup_lawyer_email_task message
LookupMsg(lawyer_id, force_refresh, retries, countdown) ==
    [lawyer_id |-> lawyer_id, force_refresh |-> force_refresh,
     retries |-> retries, countdown |-> countdown]

\* The dict the task returns
TaskResult(success, email, status, lookup_id, error) ==
    [success |-> success, email |-> email, status |-> status,
     lookup_id |-> lookup_id, error |-> error]

\* One entry of the history: a run of the task that returned a dict
Call(m, returned, created, codes, table) ==
    [lawyer_id |-> m.lawyer_id, force_refresh |-> m.force_refresh,
     retries |-> m.retries, returned |-> returned, created |-> created,
     codes |-> codes,
     records |-> Len(SelectSeq(table, LAMBDA r : r.lawyer = m.lawyer_id))]

\* lookup_lawyer_email_task.delay(lawyer_id, force_refresh)
LookupTaskSent(l, force_refresh) ==
    /\ lookupSent < MaxLookupSends
    /\ lookupSent' = lookupSent + 1
    /\ lqueue' = lqueue \cup {LookupMsg(l, force_refresh, 0, 0)}
    /\ UNCHANGED <<lookups, provider, apiKey, calls, lawyers>>
    /\ UNCHANGED exceptLookup

\* lookup_lawyer_email_task with the key configured: the service call and
\* the dict built from what it returns
LookupTaskRun(m) ==
    /\ m \in lqueue
    /\ apiKey # ""
    /\ \E done \in {lookup_lawyer_email(lookups, lawyers, m.lawyer_id,
                                         m.force_refresh, provider)} :
          /\ lookups' = done.lookups
          /\ lawyers' = done.lawyers
          /\ calls' = Append(calls,
                 Call(m, IF done.lookup.success
                         THEN TaskResult(TRUE, done.lookup.email,
                                         done.lookup.status,
                                         done.lookup.lookup_id, NullText)
                         ELSE TaskResult(FALSE, NullText, NullText, 0,
                                         done.lookup.error),
                      done.created, done.codes, done.lookups))
    /\ lqueue' = lqueue \ {m}
    /\ UNCHANGED <<provider, apiKey, lookupSent>>
    /\ UNCHANGED exceptLookup

\* lookup_lawyer_email_task without a key: ValueError, and the except
\* branch that retries with exponential backoff or returns the error
LookupTaskNoKey(m) ==
    /\ m \in lqueue
    /\ apiKey = ""
    /\ IF m.retries < LookupMaxRetries
       THEN /\ lqueue' = (lqueue \ {m}) \cup
                   {LookupMsg(m.lawyer_id, m.force_refresh, m.retries + 1,
                              LookupCountdown(m.retries))}
            /\ calls' = calls
       ELSE /\ lqueue' = lqueue \ {m}
            /\ calls' = Append(calls,
                   Call(m, TaskResult(FALSE, NullText, NullText, 0,
                                      "ROCKETREACH_API_KEY not configured"),
                        0, <<>>, lookups))
    /\ UNCHANGED <<lookups, lawyers, provider, apiKey, lookupSent>>
    /\ UNCHANGED exceptLookup

\* Stored Lawyer rows of the three entity types
FirmRow ==
    [LawyerDefaults EXCEPT !.source_url = 1, !.domain = "lawinfo.com",
                           !.company_name = "Acme Law",
                           !.entity_type = "law_firm"]

AttorneyRow ==
    [LawyerDefaults EXCEPT !.source_url = 2, !.domain = "superlawyers.com",
                           !.company_name = "Jane Roe",
                           !.attorney_name = "Jane Roe",
                           !.entity_type = "individual_attorney"]

UnknownRow ==
    [LawyerDefaults EXCEPT !.source_url = 2, !.domain = "avvo.com",
                           !.company_name = "Rex Tom Sid Jo",
                           !.entity_type = "unknown"]

InitLookup ==
    /\ LimiterAtRest
    /\ EntityAtRest
    /\ JobAtRest
    /\ DetailAtRest
    /\ Stage1AtRest
    /\ lawyers = <<LawyerSave(FirmRow), LawyerSave(AttorneyRow)>>
    /\ lookups = <<>>
    /\ lqueue = {}
    /\ apiKey \in {"", "rr-key"}
    /\ provider \in IF apiKey = "" THEN {Unreached} ELSE Scripts
    /\ lookupSent = 0
    /\ calls = <<>>
    /\ syncResult = {}
    /\ syncBefore = <<>>

NextLookup ==
    \/ \E l \in 1..Len(lawyers) : \E force_refresh \in BOOLEAN :
           LookupTaskSent(l, force_refresh)
    \/ \E m \in lqueue : LookupTaskRun(m)
    \/ \E m \in lqueue : LookupTaskNoKey(m)

SpecLookup == InitLookup /\ [][NextLookup]_vars

(***************************************************************************)
(* The rate limiter of the provider client                                 *)
(* (apps/lawyers/rocketreach_service.py)                                   *)
(***************************************************************************)

exceptLimiter == <<unitVars, taskVars, lawyers, jobVars, detailVars,
                   lookupVars, syncVars, entityVars>>

\* RateLimiter.RATE_LIMITS, the per-minute and per-hour caps
RATE_LIMITS ==
    [person_search |-> [per_minute |-> 15, per_hour |-> 50],
     person_lookup |-> [per_minute |-> 15, per_hour |-> 100]]

\* RateLimiter._reset_counters_if_needed
reset_counters_if_needed(self, current_time) ==
    LET minute == IF current_time - self.minute_start_time >= MinuteWindow
                  THEN [self EXCEPT !.request_count_minute = 0,
                                    !.minute_start_time = current_time]
                  ELSE self
    IN IF current_time - minute.hour_start_time >= HourWindow
       THEN [minute EXCEPT !.request_count_hour = 0,
                           !.hour_start_time = current_time]
       ELSE minute

\* RateLimiter._enforce_global_rate_limit: the whole seconds it sleeps, for
\* a spacing of one tenth of a second between requests
enforce_global_rate_limit(self, current_time) ==
    IF 10 * (current_time - self.last_request_time) < 1
    THEN (1 - 10 * (current_time - self.last_request_time)) \div 10
    ELSE 0

\* RateLimiter._enforce_api_specific_limits, entered at time now with
\* current_time read at the start of the check: the limiter and the time
\* after its sleeps
enforce_api_specific_limits(self, api_type, current_time, now) ==
    LET limits == RATE_LIMITS[api_type]
        minute_sleep == MinuteWindow - (current_time - self.minute_start_time)
        minute ==
            IF self.request_count_minute >= limits.per_minute
               /\ minute_sleep > 0
            THEN [self |-> [self EXCEPT
                               !.request_count_minute = 0,
                               !.minute_start_time = now + minute_sleep],
                  now |-> now + minute_sleep]
            ELSE [self |-> self, now |-> now]
        hour_sleep == HourWindow - (current_time - self.hour_start_time)
    IN IF self.request_count_hour >= limits.per_hour /\ hour_sleep > 0
       THEN [self |-> [minute.self EXCEPT
                          !.request_count_hour = 0,
                          !.hour_start_time = minute.now + hour_sleep],
             now |-> minute.now + hour_sleep]
       ELSE minute

\* RateLimiter._update_counters
update_counters(self, current_time) ==
    [self EXCEPT !.request_count_minute = @ + 1,
                 !.request_count_hour = @ + 1,
                 !.last_request_time = current_time]

\* RateLimiter.check_and_enforce_limits: the limiter and the time after it
check_and_enforce_limits(self, api_type, current_time) ==
    LET reset == reset_counters_if_needed(self, current_time)
        spaced == current_time + enforce_global_rate_limit(reset, current_time)
        enforced == enforce_api_specific_limits(reset, api_type, current_time,
                                                spaced)
    IN [self |-> update_counters(enforced.self, current_time),
        now |-> enforced.now]

\* How the provider answers the first request of a call
LimiterResponses == {Response(200, <<>>, <<>>), Response(429, <<>>, <<>>)}

\* A request to the endpoint leaves at time sent_at: it is counted when it
\* falls in the minute that began at minute_start_time.
CountRequest(sent, api_type, minute_start_time, sent_at) ==
    IF minute_start_time <= sent_at /\ sent_at < minute_start_time + MinuteWindow
    THEN [sent EXCEPT ![api_type] = @ + 1]
    ELSE sent

\* The body shared by _make_search_request and _make_lookup_request: the
\* limiter check, the request and, after a 429, the sleep and the re-send
MakeRequest(api_type, response) ==
    /\ clock < MaxClock
    /\ \E checked \in {check_and_enforce_limits(limiter, api_type, clock)} :
       \E retry_delay \in {handle_rate_limit(response)} :
       \E first \in {CountRequest(
                        IF checked.self.minute_start_time
                              # limiter.minute_start_time
                        THEN [t \in ApiTypes |-> 0]
                        ELSE sentThisMinute,
                        api_type, checked.self.minute_start_time,
                        checked.now)} :
          /\ limiter' = checked.self
          /\ clock' = checked.now + retry_delay
          /\ sentThisMinute' =
                IF retry_delay > 0
                THEN CountRequest(first, api_type,
                                  checked.self.minute_start_time,
                                  checked.now + retry_delay)
                ELSE first
    /\ UNCHANGED exceptLimiter

\* RocketReachAPI._make_search_request
MakeSearchRequest(response) == MakeRequest("person_search", response)

\* RocketReachAPI._make_lookup_request
MakeLookupRequest(response) == MakeRequest("person_lookup", response)

\* Time passes between two calls of the client.
TimePasses ==
    /\ clock < MaxClock
    /\ clock' = clock + TickSeconds
    /\ UNCHANGED <<limiter, sentThisMinute>>
    /\ UNCHANGED exceptLimiter

InitLimiter ==
    /\ LimiterAtRest
    /\ EntityAtRest
    /\ lookups = <<>>
    /\ lqueue = {}
    /\ provider = {}
    /\ apiKey = "rr-key"
    /\ lookupSent = 0
    /\ calls = <<>>
    /\ syncResult = {}
    /\ syncBefore = <<>>
    /\ JobAtRest
    /\ DetailAtRest
    /\ Stage1AtRest
    /\ lawyers = <<>>

NextLimiter ==
    \/ \E response \in LimiterResponses : MakeSearchRequest(response)
    \/ \E response \in LimiterResponses : MakeLookupRequest(response)
    \/ TimePasses

SpecLimiter == InitLimiter /\ [][NextLimiter]_vars

(***************************************************************************)
(* _sync_emails_to_lawyer on its own                                       *)
(***************************************************************************)

\* What is already stored for a contact found before
KnownContact ==
    [name |-> "Jane Roe", title |-> "Partner", company |-> "Acme Law",
     emails |-> <<"jane@old.com">>, phone |-> "", linkedin |-> "",
     source |-> "rocketreach", confidence |-> "high"]

KnownEmail ==
    [email |-> "jane@acme.com", type |-> "professional",
     contact_name |-> "Jane Roe", contact_title |-> "Partner",
     source |-> "rocketreach", confidence |-> "0.8", verified |-> FALSE]

SyncRows ==
    {LawyerSave([base EXCEPT !.email = email,
                             !.employee_contacts = contacts,
                             !.company_emails = company_emails]) :
        base \in {FirmRow, AttorneyRow, UnknownRow,
                  [UnknownRow EXCEPT !.attorney_name = "Jane Roe"]},
        email \in {"", "info@acme.com"},
        contacts \in {<<>>, <<KnownContact>>},
        company_emails \in {<<>>, <<KnownEmail>>}}

\* The contacts a lookup can discover
DiscoveredContacts ==
    {EmployeeEmail("Jane Roe", "Partner", "Acme Law",
                   <<PersonalEmail, ProfessionalEmail>>),
     EmployeeEmail("Jane Roe", "Partner", "Acme Law", <<>>),
     EmployeeEmail("Sam Poe", "Associate", "Acme Law", <<PersonalEmail>>)}

\* The results _update_lookup_with_result hands to the sync: success
\* results, which have at least one profile
SyncResults ==
    {build_success_result(find_best_email(employee_emails), employee_emails) :
        employee_emails \in
            UNION {[1..n -> DiscoveredContacts] : n \in 1..MaxContacts}}

\* self._sync_emails_to_lawyer(lookup.lawyer, result), once per row
SyncEmails(l) ==
    /\ ~syncBefore[l].done
    /\ syncBefore' = [syncBefore EXCEPT ![l].done = TRUE]
    /\ lawyers' = [lawyers EXCEPT ![l] = sync_emails_to_lawyer(@, syncResult)]
    /\ UNCHANGED syncResult
    /\ UNCHANGED exceptSync

InitSync ==
    /\ LimiterAtRest
    /\ EntityAtRest
    /\ JobAtRest
    /\ DetailAtRest
    /\ Stage1AtRest
    /\ lawyers \in {<<first, second>> : first \in SyncRows, second \in SyncRows}
    /\ lookups = <<>>
    /\ lqueue = {}
    /\ provider = {}
    /\ apiKey = ""
    /\ lookupSent = 0
    /\ calls = <<>>
    /\ syncResult \in SyncResults
    /\ syncBefore = [l \in 1..Len(lawyers) |->
                         [done |-> FALSE, row |-> lawyers[l]]]

NextSync == \E l \in 1..Len(lawyers) : SyncEmails(l)

SpecSync == InitSync /\ [][NextSync]_vars

(***************************************************************************)
(* The Lawyer model: saves, email containers and derived values            *)
(***************************************************************************)

\* One entry of the list get_all_emails returns
ListedEmail(email, type, source, verified, contact_name, contact_title) ==
    [email |-> email, type |-> type, source |-> source,
     verified |-> verified, contact_name |-> contact_name,
     contact_title |-> contact_title]

\* The loop of Lawyer.get_all_emails over company_emails from entry i on;
\* emails is the list built so far (seen_emails holds its email values)
RECURSIVE ListCompanyEmails(_, _, _)
ListCompanyEmails(company_emails, i, emails) ==
    IF i > Len(company_emails) THEN emails
    ELSE ListCompanyEmails(
             company_emails, i + 1,
             IF \E k \in 1..Len(emails) :
                    emails[k].email = company_emails[i].email
             THEN emails
             ELSE Append(emails,
                         ListedEmail(company_emails[i].email,
                                     company_emails[i].type,
                                     company_emails[i].source,
                                     company_emails[i].verified,
                                     company_emails[i].contact_name,
                                     company_emails[i].contact_title)))

\* Lawyer.get_all_emails without the seen_emails check
ListWithoutSeen(self) ==
    (IF self.email # ""
     THEN <<ListedEmail(self.email, "primary", "crawled", TRUE, "N/A",
                        "Attorney")>>
     ELSE <<>>)
    \o [i \in 1..Len(self.company_emails) |->
            ListedEmail(self.company_emails[i].email,
                        self.company_emails[i].type,
                        self.company_emails[i].source,
                        self.company_emails[i].verified,
                        self.company_emails[i].contact_name,
                        self.company_emails[i].contact_title)]

\* Lawyer.get_all_emails
get_all_emails(self) ==
    ListCompanyEmails(
        self.company_emails, 1,
        IF self.email # ""
        THEN <<ListedEmail(self.email, "primary", "crawled", TRUE,
                           IF self.attorney_name # "" THEN self.attorney_name
                           ELSE "N/A",
                           "Attorney")>>
        ELSE <<>>)

\* A company_emails entry as add_company_email builds it
CompanyEmail(email, type) ==
    [email |-> email, type |-> type, contact_name |-> "Jane Roe",
     contact_title |-> "Partner", source |-> "rocketreach",
     confidence |-> "0.8", verified |-> FALSE]

\* The email values callers pass to add_company_email
AddedEmails == {"jane@acme.com", "jroe@mail.com"}

\* Lawyer.save(update_fields=fields): the stored row after self is saved
SaveFields(stored, self, fields) ==
    [f \in DOMAIN stored |-> IF f \in fields THEN LawyerSave(self)[f]
                            ELSE stored[f]]

\* lawyer.add_company_email(email, ...) on the Lawyer loaded from row 1
AddCompanyEmail(email, type) ==
    /\ LET self == lawyers[1]
           after == add_company_email(self, email, type, "Jane Roe",
                                      "Partner", "0.8")
       IN IF after = self
          THEN /\ lastOp' = [NoOp EXCEPT !.op = "add_company_email",
                                         !.email = email, !.before = self]
               /\ obj' = self
               /\ UNCHANGED lawyers
          ELSE /\ obj' = LawyerSave(after)
               /\ lawyers' = [lawyers EXCEPT
                                 ![1] = SaveFields(@, after,
                                                   {"company_emails"})]
               /\ lastOp' = [NoOp EXCEPT
                                !.op = "add_company_email",
                                !.email = email, !.before = self,
                                !.returned =
                                    <<after.company_emails[
                                          Len(after.company_emails)]>>]
    /\ UNCHANGED lookupVars
    /\ UNCHANGED exceptEntity

\* lawyer.save() of the Lawyer loaded from row 1, nothing changed on it
FullSave ==
    /\ obj' = LawyerSave(lawyers[1])
    /\ lawyers' = [lawyers EXCEPT ![1] = LawyerSave(@)]
    /\ lastOp' = [NoOp EXCEPT !.op = "save", !.before = lawyers[1]]
    /\ UNCHANGED lookupVars
    /\ UNCHANGED exceptEntity

\* RocketReachLookup.is_successful
is_successful(self) ==
    self.status = "completed" /\ self.email \notin {NullText, ""}

\* RocketReachLookup.update_lawyer_email of record k
UpdateLawyerEmail(k) ==
    /\ IF is_successful(lookups[k])
       THEN /\ lawyers' = [lawyers EXCEPT
                  ![lookups[k].lawyer] =
                      SaveFields(@, [@ EXCEPT !.email = lookups[k].email],
                                 {"email"})]
            /\ lastOp' = [NoOp EXCEPT !.op = "update_lawyer_email",
                                      !.email = lookups[k].email,
                                      !.before = lawyers[lookups[k].lawyer],
                                      !.returned = <<TRUE>>]
       ELSE /\ lawyers' = lawyers
            /\ lastOp' = [NoOp EXCEPT !.op = "update_lawyer_email",
                                      !.before = lawyers[lookups[k].lawyer],
                                      !.returned = <<FALSE>>]
    /\ obj' = lastOp'.before
    /\ UNCHANGED lookupVars
    /\ UNCHANGED exceptEntity

\* update_lawyer_emails_from_rocketreach_task for the one record it selects
UpdateEmailsTask(k) ==
    /\ lookups[k].status = "completed"
    /\ lookups[k].email \notin {NullText, ""}
    /\ lawyers[lookups[k].lawyer].email = ""
    /\ lawyers' = [lawyers EXCEPT
          ![lookups[k].lawyer] =
              SaveFields(@, [@ EXCEPT !.email = lookups[k].email],
                         {"email"})]
    /\ lastOp' = [NoOp EXCEPT
                     !.op = "update_lawyer_emails_from_rocketreach_task",
                     !.email = lookups[k].email,
                     !.before = lawyers[lookups[k].lawyer]]
    /\ obj' = lastOp'.before
    /\ UNCHANGED lookupVars
    /\ UNCHANGED exceptEntity

\* The checks of the calculate_quality_scores task on a phone, an email, a
\* website, an address and a company name
TaskQuality(lawyer) ==
    (IF lawyer.phone = "(555) 555-0100" THEN 20 ELSE 0)
    + (IF EmailMatches(lawyer.email) THEN 20 ELSE 0)
    + (IF lawyer.website = "https://samplelaw.com" THEN 20 ELSE 0)
    + (IF lawyer.address # "" /\ TextLen(lawyer.address) > 20 THEN 20 ELSE 0)
    + (IF lawyer.company_name # "" /\ TextLen(lawyer.company_name) > 5
       THEN 20 ELSE 0)

\* calculate_quality_scores for the row: the task's own scores are assigned
\* and lawyer.save() follows
calculate_quality_scores ==
    /\ lawyers' =
           [l \in 1..Len(lawyers) |->
               LawyerSave([lawyers[l] EXCEPT
                   !.completeness_score =
                       <<Filled(<<lawyers[l].company_name, lawyers[l].phone,
                                  lawyers[l].address,
                                  lawyers[l].practice_areas,
                                  lawyers[l].website, lawyers[l].email>>)
                         * 100, 6>>,
                   !.quality_score = TaskQuality(lawyers[l])])]
    /\ lastOp' = [NoOp EXCEPT !.op = "calculate_quality_scores",
                              !.before = lawyers[1]]
    /\ obj' = lastOp'.before
    /\ UNCHANGED lookupVars
    /\ UNCHANGED exceptEntity

\* Stage 2 merges a detail page into the row and saves it
EntityDetailMerge(detail_info) ==
    /\ ~lawyers[1].is_detail_crawled
    /\ lawyers' = [lawyers EXCEPT ![1] = MergeDetail(@, detail_info)]
    /\ lastOp' = [NoOp EXCEPT !.op = "crawl_lawyer_detail_task",
                              !.before = lawyers[1]]
    /\ obj' = lastOp'.before
    /\ UNCHANGED lookupVars
    /\ UNCHANGED exceptEntity

\* The email sync of a lookup result
EntitySync(result) ==
    /\ lawyers' = [lawyers EXCEPT ![1] = sync_emails_to_lawyer(@, result)]
    /\ lastOp' = [NoOp EXCEPT !.op = "_sync_emails_to_lawyer",
                              !.before = lawyers[1]]
    /\ obj' = lastOp'.before
    /\ UNCHANGED lookupVars
    /\ UNCHANGED exceptEntity

\* Field values of a Lawyer object before it is saved
EntityBases ==
    {[LawyerDefaults EXCEPT !.domain = "lawinfo.com",
                            !.company_name = "Acme Law"],
     [LawyerDefaults EXCEPT !.domain = "superlawyers.com",
                            !.company_name = "Jane Roe"],
     [LawyerDefaults EXCEPT !.domain = "avvo.com", !.company_name = "Jo"],
     [LawyerDefaults EXCEPT !.domain = "avvo.com",
                            !.company_name = "Rex Tom Sid Jo"],
     [LawyerDefaults EXCEPT !.domain = "avvo.com",
                            !.company_name = "Rex Tom Sid Jo",
                            !.attorney_name = "Jane Roe",
                            !.website = "https://samplelaw.com",
                            !.practice_areas = "Personal Injury",
                            !.attorney_details = "Experienced attorney",
                            !.law_school = "ASU",
                            !.bar_admissions = "Arizona",
                            !.licensed_since = "1990",
                            !.education = "JD"]}

\* company_emails as stored: any entries, repeated ones included
StoredEmails ==
    UNION {[1..n -> {CompanyEmail(e, "professional") :
                         e \in {"jane@acme.com", "info@acme.com"}}] :
              n \in 0..MaxEmails}

EntityRows ==
    {[base EXCEPT !.phone = phone, !.email = email, !.address = address,
                  !.detail_url = "https://www.lawinfo.com/lawfirm/acme",
                  !.company_emails = company_emails] :
        base \in EntityBases,
        phone \in {"", "(555) 555-0100"},
        email \in {"", "info@acme.com", "n/a"},
        address \in {"", "PO Box 1", "1 Main St, Chandler, Arizona"},
        company_emails \in StoredEmails}

\* Lookup records of the Entity: one found by the service and one completed
EntityLookups ==
    <<[LookupRecord(1) EXCEPT !.status = "found", !.email = "jroe@mail.com"],
      [LookupRecord(1) EXCEPT !.status = "completed",
                              !.email = "jane@old.com"]>>

\* The lookup result synced to the Entity: one contact with two emails
EntityResults ==
    {build_success_result(
         "jane@acme.com",
         <<EmployeeEmail("Jane Roe", "Partner", "Acme Law",
                         <<PersonalEmail, ProfessionalEmail>>)>>)}

InitEntity ==
    /\ LimiterAtRest
    /\ JobAtRest
    /\ DetailAtRest
    /\ Stage1AtRest
    /\ lawyers \in {<<LawyerSave(row)>> : row \in EntityRows}
    /\ obj = lawyers[1]
    /\ lastOp = NoOp
    /\ lookups = EntityLookups
    /\ lqueue = {}
    /\ provider = {}
    /\ apiKey = ""
    /\ lookupSent = 0
    /\ calls = <<>>
    /\ syncResult = {}
    /\ syncBefore = <<>>

NextEntity ==
    \/ \E email \in AddedEmails : AddCompanyEmail(email, "professional")
    \/ FullSave
    \/ \E k \in 1..Len(lookups) : UpdateLawyerEmail(k)
    \/ \E k \in 1..Len(lookups) : UpdateEmailsTask(k)
    \/ calculate_quality_scores
    \/ \E detail_info \in DetailInfos : EntityDetailMerge(detail_info)
    \/ \E result \in EntityResults : EntitySync(result)

SpecEntity == InitEntity /\ [][NextEntity]_vars

(***************************************************************************)
(* Properties of Stage 1                                                   *)
(***************************************************************************)

\* Rows of the Lawyer table that came from unit u
RowsOf(u) == SelectSeq(lawyers, LAMBDA r : r.source_url = u)

HasTask(u) == \E m \in queue : m.unit = u

ContainerName(c) ==
    LET matched == {i \in 1..Len(c.name) : c.name[i] # NoMatch}
    IN IF matched = {} THEN ""
       ELSE c.name[CHOOSE i \in matched : \A j \in matched : i <= j]

\* The listing containers of a page that a run considers (the first 20)
Considered(page) ==
    LET cs == IF page.containers # <<>> THEN page.containers ELSE page.generic
    IN [i \in 1..(IF Len(cs) > 20 THEN 20 ELSE Len(cs)) |-> cs[i]]

FetchedRun(u) == pc[u] = "crawled" /\ runSrc[u].err = ""

RowsWellFormed(u) ==
    \A i \in 1..Len(RowsOf(u)) :
        /\ RowsOf(u)[i].is_detail_crawled = FALSE
        /\ RowsOf(u)[i].company_name # ""

UnitsIn(statuses) == Cardinality({u \in Units : unitStatus[u] \in statuses})

SameFraction(p, q) == p[1] * q[2] = q[1] * p[2]

\* C7: after an aggregation step the stored counters of the Job are those of
\* its units: crawled_urls counts the units COMPLETED or FAILED, success_count
\* the COMPLETED, error_count the FAILED ones, and progress_percentage is
\* crawled_urls / total_urls * 100.
C7_CountersFromUnits ==
    aggregated =>
        /\ job.crawled_urls = UnitsIn({"COMPLETED", "FAILED"})
        /\ job.success_count = UnitsIn({"COMPLETED"})
        /\ job.error_count = UnitsIn({"FAILED"})
        /\ SameFraction(job.progress_percentage,
                        Percentage(UnitsIn({"COMPLETED", "FAILED"}),
                                   job.total_urls))

(***************************************************************************)
(* Properties of Stage 2                                                   *)
(***************************************************************************)

\* C3: no two workers are at the detail fetch of the same Lawyer at the same
\* time.
C3_OneDetailAttemptInFlight ==
    \A w1, w2 \in Workers :
        (w1 # w2 /\ dpc[w1] = "fetching" /\ dpc[w2] = "fetching")
            => dLawyer[w1].id # dLawyer[w2].id

\* C4: step2_crawl_detail never selects a Lawyer whose detail_url is empty,
\* whatever its is_detail_crawled; a detail task goes on to the fetch only
\* for a Lawyer it read with a detail_url and with is_detail_crawled false;
\* and a Lawyer with an empty detail_url, or already detail-crawled, is never
\* fetched and keeps every field, however many tasks are run for it.
C4_Stage2Eligibility ==
    /\ \A s \in selected : s.detail_url # ""
    /\ \A w \in Workers :
         dpc[w] = "fetching" =>
             /\ dLawyer[w].row.detail_url # ""
             /\ dLawyer[w].row.is_detail_crawled = FALSE
    /\ \A l \in 1..Len(lawyers0) :
         (lawyers0[l].detail_url = "" \/ lawyers0[l].is_detail_crawled) =>
             /\ l \notin detailFetched
             /\ lawyers[l] = lawyers0[l]

\* The admin action has selected rows while the table holds a row with an
\* empty detail_url; one task has returned early for a Lawyer without a
\* detail URL and another for a Lawyer already detail-crawled.
C4_Witness ==
    /\ selected # {}
    /\ \E l \in 1..Len(lawyers0) :
         lawyers0[l].detail_url = "" /\ ~lawyers0[l].is_detail_crawled
    /\ "has no detail URL" \in dReturned
    /\ "already detail crawled" \in dReturned


(***************************************************************************)
(* Properties of the lookup                                                *)
(***************************************************************************)

\* Run j is the next run for the Entity of run i
NextCallOf(i, j) ==
    /\ i < j
    /\ calls[i].lawyer_id = calls[j].lawyer_id
    /\ \A k \in (i + 1)..(j - 1) : calls[k].lawyer_id # calls[i].lawyer_id

\* Run i created a record that ended completed/found with a non-empty email
EndedWithEmail(i) ==
    /\ calls[i].created # 0
    /\ lookups[calls[i].created].status \in {"completed", "found"}
    /\ lookups[calls[i].created].email \notin {NullText, ""}

FirstCallOf(i) == \A k \in 1..(i - 1) : calls[k].lawyer_id # calls[i].lawyer_id

\* C2: when a lookup of an Entity ended with a completed/found record that
\* holds a non-empty email, the next lookup of that Entity without
\* force_refresh creates no record, sends no request to the provider and
\* returns what the first returned (the same email and record id); after
\* the two calls the Entity has exactly the one record the first created.
C2_ReuseWithoutRefresh ==
    \A i, j \in 1..Len(calls) :
        (NextCallOf(i, j) /\ EndedWithEmail(i) /\ ~calls[j].force_refresh) =>
            /\ calls[j].created = 0
            /\ calls[j].codes = <<>>
            /\ calls[j].returned = calls[i].returned
            /\ calls[j].returned.lookup_id = calls[i].created
            /\ calls[j].returned.email = lookups[calls[i].created].email
            /\ calls[j].records = calls[i].records
            /\ FirstCallOf(i) => calls[j].records = 1

\* C2 witness: a first lookup found an email and a second lookup of the same
\* Entity without force_refresh has run.
C2_Witness ==
    \E i, j \in 1..Len(calls) :
        /\ NextCallOf(i, j) /\ EndedWithEmail(i) /\ FirstCallOf(i)
        /\ ~calls[j].force_refresh
        /\ calls[i].codes # <<>>

AllNotFound(codes) ==
    codes # <<>> /\ \A k \in 1..Len(codes) : codes[k] = 404

\* C9: a lookup all of whose provider requests were answered 404 leaves its
\* record with status not_found and email None, the task returns a dict
\* (a failure without error text), and with a key configured no lookup task
\* is ever sent again as a retry.
C9_NotFoundIsAnOutcome ==
    /\ \A i \in 1..Len(calls) :
           AllNotFound(calls[i].codes) =>
               /\ calls[i].created # 0
               /\ lookups[calls[i].created].status = "not_found"
               /\ lookups[calls[i].created].email = NullText
               /\ calls[i].returned.success = FALSE
               /\ calls[i].returned.error = NullText
    /\ apiKey # "" => \A m \in lqueue : m.retries = 0

\* C9 witness: a lookup whose requests were all answered 404 has returned.
C9_Witness ==
    \E i \in 1..Len(calls) :
        /\ AllNotFound(calls[i].codes)
        /\ calls[i].created # 0
        /\ lqueue = {}

\* C10: a 401 or 403 response is the last response of its attempt, and the
\* attempt is reported as a failure that carries the error, its record not
\* being not_found.
C10_FatalEndsAttempt ==
    \A i \in 1..Len(calls) :
        \A k \in 1..Len(calls[i].codes) :
            calls[i].codes[k] \in {401, 403} =>
                /\ k = Len(calls[i].codes)
                /\ calls[i].returned.success = FALSE
                /\ calls[i].returned.error # NullText
                /\ lookups[calls[i].created].status # "not_found"

AllRateLimited(codes) ==
    codes # <<>> /\ \A k \in 1..Len(codes) : codes[k] = 429

\* C11: in an attempt whose every request is answered 429, the first request
\* is re-sent exactly once and nothing is sent after the second 429, and the
\* attempt ends as a failure: its LookupRecord has status failed.
C11_SecondRateLimitFails ==
    \A i \in 1..Len(calls) :
        AllRateLimited(calls[i].codes) =>
            /\ Len(calls[i].codes) = 2
            /\ lookups[calls[i].created].status = "failed"

\* C12: a run of the lookup task that received an HTTP 500 from the provider
\* does not return a result while the task has retries left (it is sent
\* again by the queue), and no request follows the 500 inside the run.
C12_ServerErrorRetriesTask ==
    \A i \in 1..Len(calls) :
        \A k \in 1..Len(calls[i].codes) :
            calls[i].codes[k] = 500 =>
                /\ calls[i].retries = LookupMaxRetries
                /\ k = Len(calls[i].codes)

\* C13: a lookup without force_refresh that returned an existing record
\* (created none) returned one with a non-empty email; an Entity without such
\* a record gets a new external call.
C13_ReuseNeedsEmail ==
    \A j \in 1..Len(calls) :
        (calls[j].created = 0 /\ calls[j].returned.success) =>
            /\ ~calls[j].force_refresh
            /\ calls[j].returned.status \in {"completed", "found"}
            /\ calls[j].returned.email \notin {NullText, ""}

(***************************************************************************)
(* Properties of the sync                                                  *)
(***************************************************************************)

SameContact(entry, emp) == entry.name = emp.name /\ entry.title = emp.title

\* The emails of the last discovered contact with emails that has the name
\* and title of entry
LastEmailsFor(entry, employee_emails) ==
    LET hits == SelectSeq(employee_emails,
                          LAMBDA emp : /\ SameContact(entry, emp)
                                       /\ emp.actual_emails # <<>>)
        last == hits[Len(hits)].actual_emails
    IN [j \in 1..Len(last) |-> last[j].email]

IndividualHalf(before, after) ==
    (/\ before.entity_type = "individual_attorney"
     /\ before.email = ""
     /\ syncResult.email \notin {NullText, ""})
        => after.email = syncResult.email

C14_ScoresMatchFields ==
    \A l \in 1..Len(lawyers) :
        /\ SameFraction(lawyers[l].completeness_score,
                        calculate_completeness_score(lawyers[l]))
        /\ lawyers[l].quality_score = calculate_quality_score(lawyers[l])

NoRepeat(entries) ==
    \A i, j \in 1..Len(entries) : entries[i].email = entries[j].email => i = j

\* C15: add_company_email with an email that company_emails already holds
\* returns False and leaves the stored company_emails as they were; with a
\* new email it returns the entry it appended as the last one, the earlier
\* entries are kept, and the stored row and the object hold the new list; a
\* list without repeated emails stays without repeated emails.
C15_AddCompanyEmail ==
    lastOp.op = "add_company_email" =>
        LET before == lastOp.before.company_emails
            after == lawyers[1].company_emails
        IN /\ IF \E i \in 1..Len(before) : before[i].email = lastOp.email
              THEN lastOp.returned = <<>> /\ after = before
              ELSE /\ Len(after) = Len(before) + 1
                   /\ SubSeq(after, 1, Len(before)) = before
                   /\ after[Len(after)].email = lastOp.email
                   /\ lastOp.returned = <<after[Len(after)]>>
           /\ obj.company_emails = after
           /\ NoRepeat(before) => NoRepeat(after)

\* C15 witness: add_company_email was called with an email that the list,
\* two distinct emails long, already holds.
C15_Witness ==
    /\ lastOp.op = "add_company_email"
    /\ lastOp.returned = <<>>
    /\ Len(lawyers[1].company_emails) >= 2
    /\ NoRepeat(lawyers[1].company_emails)

\* The indices of company_emails that get_all_emails lists: the first entry
\* of each email value that is not the primary email
ListedIndices(self) ==
    {i \in 1..Len(self.company_emails) :
        /\ self.company_emails[i].email # self.email
        /\ \A j \in 1..(i - 1) :
               self.company_emails[j].email # self.company_emails[i].email}

\* C16: the list of get_all_emails holds no email value twice, starts with
\* the primary email when there is one, and continues with the first entry
\* of every other email value of company_emails, in stored order.
C16_AllEmailsDistinct ==
    \A l \in 1..Len(lawyers) :
        LET self == lawyers[l]
            listed == get_all_emails(self)
            lead == IF self.email # "" THEN 1 ELSE 0
            keep == ListedIndices(self)
        IN /\ NoRepeat(listed)
           /\ self.email # "" =>
                 /\ listed[1].email = self.email
                 /\ listed[1].type = "primary"
           /\ Len(listed) = lead + Cardinality(keep)
           /\ \A k \in 1..Cardinality(keep) :
                 \E i \in keep :
                     /\ Cardinality({j \in keep : j <= i}) = k
                     /\ listed[lead + k].email = self.company_emails[i].email
                     /\ listed[lead + k].type = self.company_emails[i].type

\* C16 witness: a row whose company_emails repeat the primary email and
\* repeat one another.
C16_Witness ==
    \E l \in 1..Len(lawyers) :
        /\ lawyers[l].email # ""
        /\ \E i, j \in 1..Len(lawyers[l].company_emails) :
              /\ i < j
              /\ lawyers[l].company_emails[i].email = lawyers[l].email
              /\ lawyers[l].company_emails[j].email = lawyers[l].email

\* C17: detect_entity_type gives for a row what it gives for a row that has
\* only its domain and company_name; a save gives a saved row its
\* entity_type again, once or twice in a row.
C17_ClassifyIdempotent ==
    /\ \A l \in 1..Len(lawyers) :
          /\ detect_entity_type(lawyers[l])
                = detect_entity_type(
                      [LawyerDefaults EXCEPT
                          !.domain = lawyers[l].domain,
                          !.company_name = lawyers[l].company_name])
          /\ LawyerSave(lawyers[l]).entity_type = lawyers[l].entity_type
          /\ LawyerSave(LawyerSave(lawyers[l])).entity_type
                = lawyers[l].entity_type
    /\ lastOp.op = "save" => lawyers[1].entity_type = lastOp.before.entity_type

\* C17 witness: a row that has an attorney_name and that every save
\* classifies again (its type is unknown) was saved.
C17_Witness ==
    /\ lastOp.op = "save"
    /\ lawyers[1].entity_type = "unknown"
    /\ lawyers[1].attorney_name # ""

\* C18: both stored scores of every row lie between 0 and 100.
C18_ScoresInRange ==
    \A l \in 1..Len(lawyers) :
        /\ 0 <= lawyers[l].completeness_score[1]
        /\ lawyers[l].completeness_score[1]
              <= 100 * lawyers[l].completeness_score[2]
        /\ lawyers[l].completeness_score[2] > 0
        /\ 0 <= lawyers[l].quality_score
        /\ lawyers[l].quality_score <= 100

\* C18 witness: a saved row with every scored field filled and valid has
\* both scores at 100.
C18_Witness ==
    /\ lastOp.op = "save"
    /\ lawyers[1].completeness_score = <<600, 6>>
    /\ lawyers[1].quality_score = 100


(***************************************************************************)
(* Properties of cancellation and purge                                    *)
(***************************************************************************)

\* A step that starts a unit: a turn of the loop of crawl_session_task, or an
\* execution of the unit's Stage-1 task
UnitStarts ==
    \/ sess.pc = "loop" /\ sess'.pc = "loop" /\ sess'.idx = sess.idx + 1
    \/ \E u \in Units : attempts'[u] > attempts[u]

\* C19: while the status of the Job is CANCELLED no step starts a unit.
C19_NoStartAfterCancel ==
    [][job.status = "CANCELLED" => ~UnitStarts]_vars

\* C20: a step of clear_celery_tasks that resets the Job leaves every unit
\* that was RUNNING and a Job whose crawl was in progress with status
\* PENDING.
C20_PurgeResets ==
    [][(\E sessKilled \in BOOLEAN : \E killed \in SUBSET Units :
           clear_celery_tasks(TRUE, killed, sessKilled))
       => /\ \A u \in Units :
               unitStatus[u] = "RUNNING" => unitStatus'[u] = "PENDING"
          /\ job.status \in {"CRAWLING", "DISCOVERING"}
               => job'.status = "PENDING"]_vars


(***************************************************************************)
(* Properties of the Job's status                                          *)
(***************************************************************************)

\* C21: the status stored on the Job is one of STATUS_CHOICES, and a step
\* that stores DONE, FAILED or CANCELLED starts from CRAWLING, PAUSED or
\* RETRYING.
C21_JobStatusMachine ==
    [][/\ job'.status \in JobStatusChoices
       /\ (job'.status # job.status
            /\ job'.status \in {"DONE", "FAILED", "CANCELLED"})
           => job.status \in {"CRAWLING", "PAUSED", "RETRYING"}]_vars


(***************************************************************************)
(* Properties of redelivery                                                *)
(***************************************************************************)

\* The number of Lawyer rows created from unit u
RowsFrom(u, table) ==
    Cardinality({l \in 1..Len(table) : table[l].source_url = u})

\* C22: no step changes the status or lawyers_found of a unit that is
\* COMPLETED, nor the number of Lawyer rows created from it.
C22_CompletedUnitUntouched ==
    [][\A u \in Units :
          unitStatus[u] = "COMPLETED" =>
              /\ unitStatus'[u] = "COMPLETED"
              /\ unitFound'[u] = unitFound[u]
              /\ RowsFrom(u, lawyers') = RowsFrom(u, lawyers)]_vars


(***************************************************************************)
(* Properties of the Stage-2 run                                           *)
(***************************************************************************)

\* The step in which worker w's detail task gets its detail_info and returns
FetchStep(w) == dpc[w] = "fetching" /\ dpc'[w] = "idle"

\* C23: a run whose fetch and parse raised nothing (detail_info is not None)
\* leaves its Lawyer stored with is_detail_crawled = TRUE.
C23_FetchedMeansCrawled ==
    [][\A w \in Workers :
          (FetchStep(w) /\ dInfo' # None) =>
              lawyers'[dLawyer[w].id].is_detail_crawled]_vars

\* C24: a run whose fetch failed (detail_info is None) leaves the Lawyer
\* table as it was and puts the task back in the queue.
C24_FailedFetchRetried ==
    [][\A w \in Workers :
          (FetchStep(w) /\ dInfo' = None) =>
              /\ lawyers' = lawyers
              /\ dqueue'[dLawyer[w].id] = dqueue[dLawyer[w].id] + 1]_vars

\* C25: after a run that merged a detail_info, a field the page gave no value
\* for has the value the run loaded, the fields the detail page never gives
\* are as loaded, and the address the run loaded is still the beginning of
\* the address.
C25_SparseMerge ==
    [][\A w \in Workers :
          (FetchStep(w) /\ Truthy(dInfo')) =>
              LET before == dLawyer[w].row
                  after == lawyers'[dLawyer[w].id]
              IN /\ dInfo'.attorney_details = ""
                       => after.attorney_details = before.attorney_details
                 /\ dInfo'.address = "" => after.address = before.address
                 /\ after.company_name = before.company_name
                 /\ after.phone = before.phone
                 /\ after.email = before.email
                 /\ after.website = before.website
                 /\ after.detail_url = before.detail_url
                 /\ after.address \in {before.address,
                                       before.address \o dInfo'.address}]_vars


(***************************************************************************)
(* Properties of employee_contacts                                         *)
(***************************************************************************)

\* The (name, title) pairs of a sequence of contacts
NameTitles(contacts) ==
    {<<contacts[i].name, contacts[i].title>> : i \in 1..Len(contacts)}

\* C26: employee_contacts of no row holds two entries with the same name and
\* title, and the sync of a law firm adds one entry per discovered (name,
\* title) with emails that the row did not hold, however often the result
\* lists it.
C26_ContactsUnique ==
    \A l \in 1..Len(lawyers) :
        LET old == syncBefore[l].row.employee_contacts
            new == lawyers[l].employee_contacts
            found == SelectSeq(syncResult.employee_emails,
                               LAMBDA emp : emp.actual_emails # <<>>)
        IN /\ \A c, d \in 1..Len(new) : SameContact(new[c], new[d]) => c = d
           /\ (syncBefore[l].done
               /\ syncBefore[l].row.entity_type = "law_firm") =>
                 Len(new) = Len(old)
                     + Cardinality(NameTitles(found) \ NameTitles(old))

\* C26 witness: a law firm that held a contact was synced with a result that
\* lists this contact twice, with emails; the entry was updated in place.
C26_Witness ==
    \E l \in 1..Len(lawyers) :
        /\ syncBefore[l].done
        /\ syncBefore[l].row.entity_type = "law_firm"
        /\ syncBefore[l].row.employee_contacts = <<KnownContact>>
        /\ Len(syncResult.employee_emails) = 2
        /\ \A n \in 1..2 :
              /\ SameContact(KnownContact, syncResult.employee_emails[n])
              /\ syncResult.employee_emails[n].actual_emails # <<>>
        /\ Len(lawyers[l].employee_contacts) = 1
        /\ lawyers[l].employee_contacts[1].emails # KnownContact.emails


(***************************************************************************)
(* Properties of the Stage-1 extraction                                    *)
(***************************************************************************)

\* C27: every Lawyer row created from a lawinfo unit is a law_firm and every
\* row created from a superlawyers unit is an individual_attorney.
C27_DomainPrecedence ==
    \A l \in 1..Len(lawyers) :
        lawyers[l].source_url \in Units =>
            /\ UnitDomain(lawyers[l].source_url) = "lawinfo"
                  => lawyers[l].entity_type = "law_firm"
            /\ UnitDomain(lawyers[l].source_url) = "superlawyers"
                  => lawyers[l].entity_type = "individual_attorney"

\* The first text in list order that is not empty, "" when there is none
FirstText(outcomes) ==
    LET texts == SelectSeq(outcomes, LAMBDA t : t \notin {NoMatch, ""})
    IN IF texts = <<>> THEN "" ELSE texts[1]

\* C29: for every container of a fetched page that a run considered, the
\* extracted text is the text of the first selector that yields a non-empty
\* text.
C29_FirstNonEmptyText ==
    \A u \in Units :
        FetchedRun(u) =>
            \A i \in 1..Len(Considered(runSrc[u].page)) :
                extract_text_by_selectors(Considered(runSrc[u].page)[i].name)
                    = FirstText(Considered(runSrc[u].page)[i].name)


\* C28: every request sent to an endpoint type in the limiter's minute has
\* its own limiter check behind it, and no endpoint type is sent more
\* requests in that minute than its per-minute cap.
C28_RequestsUnderCaps ==
    /\ sentThisMinute["person_search"] + sentThisMinute["person_lookup"]
          <= limiter.request_count_minute
    /\ \A t \in ApiTypes : sentThisMinute[t] <= RATE_LIMITS[t].per_minute


\* C30: at most one crawl_session_task of the Job is in flight (queued at the
\* broker or running on a worker) at any time.
C30_OneSessionInFlight ==
    sessQueue + (IF sess.pc # "idle" THEN 1 ELSE 0) <= 1

====
